---- MODULE Spec2Model ----
(***************************************************************************)
(* Turn governor, speaker selector and beat protocol of objection-ai:      *)
(* StoryManager (story manager with the transcript log), CaseManager       *)
(* (nextBeat), CharacterManager (generateSpeech / sendMessage) and the     *)
(* orchestration layer (handleIncomingPlainMessage, runAiWindow,           *)
(* startJudgeOpening).                                                     *)
(*                                                                         *)
(* The specifications share the state:                                     *)
(*   SpecStory - a sequential caller of the StoryManager methods (the      *)
(*               governor and chooseSpeaker), inputs from bounded sets;    *)
(*   SpecCase  - a sequential caller of openAiWindow and                   *)
(*               CaseManager.nextBeat, inputs from bounded sets;           *)
(*   Spec      - the running program: player messages, the AI window loop  *)
(*               and the timer-started judge opening, interleaved at the   *)
(*               suspension points (awaits) of the code;                   *)
(*   FairSpec  - Spec with weak fairness on the resumption of every await; *)
(*   SpecCooldown - repeated chooseSpeaker / recordSpeech on one candidate *)
(*               list while the clock may advance;                         *)
(*   SpecPrompt - nextBeat for one persona with any evidence list;         *)
(*   SpecPersona - nextBeat and setPose on bound and unbound personas;     *)
(*   SpecCatalog - createCase and addCharacter on a fresh CaseManager;     *)
(*   SpecGovernor - the governor methods with any budget argument;         *)
(*   SpecTurns - governor calls and beats of a sequential caller;          *)
(*   SpecDraft - nextBeat and generateSpeech with drafts of any content;   *)
(*   SpecRecord - beats picked by the fallback while the clock goes on;    *)
(*   SpecTranscript - logSpeech and the transcript of the recent messages; *)
(*   SpecKeyPoints - the key points of a story and their cursor;           *)
(*   SpecSetup - the generators of the case prompt, evidence and profiles; *)
(*   SpecChannel - Spec with every message of the shared channel.          *)
(***************************************************************************)
EXTENDS Integers, Sequences, FiniteSets, TLC

(* ------------------------------ bounds --------------------------------- *)

\* largest AI-turn budget a caller passes to beginPlayerTurn / openAiWindow
MaxBudget == 2
\* CONFIG.maxAiMessages: configurable (--max-ai-messages), default 4
MAX_AI_MESSAGES == 2
\* messages received in one run of the program
MaxPlayerMessages == 2
\* longest candidate list a caller passes
MaxCands == 2
\* nextBeat calls one caller of CaseManager makes
MaxBeats == 2
\* Date.now() ranges over 1..MaxClock
MaxClock == 3
\* selections a caller makes and records from one candidate list
MaxPicks == 4
\* evidence items of a case
MaxEvidence == 2
\* profiles in the definition of a case
MaxProfiles == 2
\* entries of the transcript log a caller writes
MaxLog == 22
\* key points of a story
MaxKeyPoints == 4

(* ------------------------------ values --------------------------------- *)

\* null / undefined where a number is expected
NoId == -1
\* ids of the personas of a case: 10 and 4 are the fallback Judge and
\* Witness; 0 is an id the generative service may give a generated profile
PersonaIds == {0, 4, 10}
\* a candidate flagged isHuman (the player)
HumanIds == {1}
\* an id that belongs to no persona and no candidate
UnknownIds == {99}
CandIds == PersonaIds \cup HumanIds
AllIds == CandIds \cup UnknownIds
roleOf(id) == IF id = 10 THEN "Judge" ELSE IF id = 4 THEN "Witness" ELSE "Prosecutor"

Procs == {"api", "loop", "judge"}

\* String.prototype.toLowerCase on the role tags in use
lowerCase(r) ==
  CASE r = "Prosecutor" -> "prosecutor"
    [] r = "Judge" -> "judge"
    [] r = "Witness" -> "witness"
    [] r = "Defendant" -> "defendant"
    [] OTHER -> r

\* names of evidence items, and the evidence lists built from them
EvidenceNames == {"knife", "note"}
EvidenceLists == {<<>>, <<"knife">>, <<"note">>, <<"knife", "note">>}
Texts == {"", "a"}

Max(a, b) == IF a >= b THEN a ELSE b
Min(a, b) == IF a <= b THEN a ELSE b

VARIABLES
  awaitingPlayer,    \* StoryManager.awaitingPlayer
  aiTurnsRemaining,  \* StoryManager.aiTurnsRemaining
  lastSpokenAt,      \* StoryManager.lastSpokenAt, 0 = no entry
  speechLog,         \* StoryManager.speechLog
  smGenai,           \* StoryManager.genai is configured
  cmGenai,           \* CaseManager.genai is configured
  serviceDown,       \* the generative service throws on every call
  characters,        \* CaseManager.characters: persona ids in insertion order
  socketBound,       \* CharacterManager.character # null, per persona
  beat,              \* per caller: the nextBeat / chooseSpeaker call in progress
  ret,               \* per caller: what its last call returned or threw
  aiWindowRunning,   \* orchestration: aiWindowRunning
  lastSpeakerId,     \* orchestration: lastSpeakerId
  win,               \* runAiWindow's locals: pc, steps, lastWantsContinue;
                     \* history: budget, beats started, a beat threw
  judgePc,           \* startJudgeOpening's position
  alive,             \* the process has not exited
  playerMessages,    \* messages given to handleIncomingPlainMessage so far
  received,          \* history: the last of them
  clock,             \* Date.now(); time passes in SpecCooldown only
  exitOnRejection,   \* the runtime ends the process on an unhandled rejection
  playerIsAi,        \* aiUsernames.has(PLAYER_USERNAME)
  window,            \* history: the last window opened, the calls since and
                     \* the beats that returned a speech
  picks,             \* history: the candidate list a caller selects from
                     \* repeatedly, and the speakers selected and recorded
  evidences,         \* CaseManager.evidences: the names, in insertion order
  currentPose,       \* Character.state.poseId of each bound persona
  speeches,          \* CharacterManager.speeches: the texts, oldest first
  mood,              \* CharacterManager.mood
  memory,            \* CharacterManager.memory: the entries, oldest first
  channel,           \* the last command sent on the output channel
  presetOf,          \* CharacterManager.characterId of each persona, 0: none
  usedCharacterIds,  \* CaseManager.usedCharacterIds
  caseBuilt,         \* history: createCase has completed, and so has every
                     \* addCharacter since
  keyPoints,         \* StoryManager.keyPoints
  keyPointIndex      \* StoryManager.keyPointIndex

vars == <<awaitingPlayer, aiTurnsRemaining, lastSpokenAt, speechLog, smGenai,
          cmGenai, serviceDown, characters, socketBound, beat, ret,
          aiWindowRunning, lastSpeakerId, win, judgePc, alive, playerMessages,
          received, clock, exitOnRejection, playerIsAi, window, picks, evidences,
          currentPose, speeches, mood, memory, channel, presetOf,
          usedCharacterIds, caseBuilt, keyPoints, keyPointIndex>>

(* --------------------------- Turn governor ----------------------------- *)

Governor(a, n) == [awaitingPlayer |-> a, aiTurnsRemaining |-> n]

\* the number NaN among the turn counts
NaNTurns == 0 - 1000

\* ToNumber of an argument: NaN for undefined (NoId)
toNumber(x) == IF x = NoId THEN NaNTurns ELSE x

\* Math.max(0, x): NaN for NaN
mathMax0(x) == IF x = NaNTurns THEN NaNTurns ELSE Max(0, x)

\* x > 0 and x <= 0: both false for NaN
positive(x) == x # NaNTurns /\ x > 0
notPositive(x) == x # NaNTurns /\ x <= 0

\* Math.max(0, aiTurnBudget)
beginPlayerTurn(g, aiTurnBudget) ==
  Governor(FALSE, mathMax0(toNumber(aiTurnBudget)))

\* Math.max(0, turns ?? 0): undefined (NoId) counts as 0
openAiWindow(g, turns) ==
  Governor(FALSE, mathMax0(IF turns = NoId THEN 0 ELSE turns))

completeAiTurn_Early(g) ==
  LET n == IF positive(g.aiTurnsRemaining) THEN g.aiTurnsRemaining - 1
           ELSE g.aiTurnsRemaining
  IN  Governor(g.awaitingPlayer \/ notPositive(n - 1), n)

completeAiTurn(g) ==
  LET n == IF positive(g.aiTurnsRemaining) THEN g.aiTurnsRemaining - 1
           ELSE g.aiTurnsRemaining
  IN  Governor(g.awaitingPlayer \/ notPositive(n), n)

forcePlayerTurn_AsCompleteAiTurn(g) == completeAiTurn(g)

forcePlayerTurn(g) == Governor(TRUE, 0)

isPlayerTurn(g) == g.awaitingPlayer \/ notPositive(g.aiTurnsRemaining)

hasAiTurnAvailable(g) == ~isPlayerTurn(g)

(* ------------------------- program state record ------------------------ *)

\* The fields a handler may write, threaded through the calls it makes.
State ==
  [awaitingPlayer |-> awaitingPlayer, aiTurnsRemaining |-> aiTurnsRemaining,
   lastSpokenAt |-> lastSpokenAt, speechLog |-> speechLog, beat |-> beat,
   ret |-> ret, aiWindowRunning |-> aiWindowRunning,
   lastSpeakerId |-> lastSpeakerId, win |-> win, judgePc |-> judgePc,
   alive |-> alive, window |-> window, currentPose |-> currentPose,
   speeches |-> speeches, mood |-> mood, memory |-> memory,
   channel |-> channel]

Commit(s) ==
  /\ awaitingPlayer' = s.awaitingPlayer
  /\ aiTurnsRemaining' = s.aiTurnsRemaining
  /\ lastSpokenAt' = s.lastSpokenAt
  /\ speechLog' = s.speechLog
  /\ beat' = s.beat
  /\ ret' = s.ret
  /\ aiWindowRunning' = s.aiWindowRunning
  /\ lastSpeakerId' = s.lastSpeakerId
  /\ win' = s.win
  /\ judgePc' = s.judgePc
  /\ alive' = s.alive
  /\ window' = s.window
  /\ currentPose' = s.currentPose
  /\ speeches' = s.speeches
  /\ mood' = s.mood
  /\ memory' = s.memory
  /\ channel' = s.channel

Gov == Governor(awaitingPlayer, aiTurnsRemaining)
govOf(s) == Governor(s.awaitingPlayer, s.aiTurnsRemaining)
withGov(s, g) ==
  [s EXCEPT !.awaitingPlayer = g.awaitingPlayer,
            !.aiTurnsRemaining = g.aiTurnsRemaining]

\* StoryManager methods on the state, with the history of the window kept
\* history of a window just opened: nothing completed, forced or delivered
NewWindow(s, budget) ==
  [budget |-> budget, completed |-> 0, forced |-> FALSE,
   logAtOpen |-> Len(s.speechLog), delivered |-> <<>>]

doBeginPlayerTurn(s, budget) ==
  [withGov(s, beginPlayerTurn(govOf(s), budget)) EXCEPT
     !.window = NewWindow(s, budget)]

doOpenAiWindow(s, turns) ==
  [withGov(s, openAiWindow(govOf(s), turns)) EXCEPT
     !.window = NewWindow(s, turns)]

doCompleteAiTurn(s) ==
  [withGov(s, completeAiTurn(govOf(s))) EXCEPT
     !.window.completed = Min(@ + 1, MaxBudget + 2)]

doForcePlayerTurn(s) ==
  [withGov(s, forcePlayerTurn(govOf(s))) EXCEPT !.window.forced = TRUE]

\* recordSpeech(speakerId, now = Date.now())
recordSpeech(s, speakerId) == [s EXCEPT !.lastSpokenAt[speakerId] = clock]

logSpeech_Unshift(s, speakerId, text) ==
  LET s1 == [s EXCEPT !.speechLog =
                <<[speakerId |-> speakerId, text |-> text]>> \o @]
  IN  IF speakerId # NoId /\ speakerId # 0
      THEN [s1 EXCEPT !.lastSpokenAt[speakerId] = clock]
      ELSE s1

logSpeech_TruthyOnly(s, speakerId, text) ==
  IF speakerId # NoId /\ speakerId # 0
  THEN [s EXCEPT !.speechLog = Append(@, [speakerId |-> speakerId, text |-> text]),
                 !.lastSpokenAt[speakerId] = clock]
  ELSE s

\* logSpeech: push, then lastSpokenAt only for a truthy speakerId
logSpeech(s, speakerId, text) ==
  LET s1 == [s EXCEPT !.speechLog =
                Append(@, [speakerId |-> speakerId, text |-> text])]
  IN  IF speakerId # NoId /\ speakerId # 0
      THEN [s1 EXCEPT !.lastSpokenAt[speakerId] = clock]
      ELSE s1

(* --------------------------- Speaker selector -------------------------- *)

Cand(id, human) == [id |-> id, isHuman |-> human]

npcCandidates_All(cands) == cands

\* candidates.filter((candidate) => !candidate.isHuman)
npcCandidates(cands) == SelectSeq(cands, LAMBDA c : ~c.isHuman)

\* Array.prototype.find on the id: the first match, NoId when there is none
RECURSIVE findById(_, _)
findById(cands, id) ==
  IF cands = <<>> THEN NoId
  ELSE IF Head(cands).id = id THEN Head(cands).id
  ELSE findById(Tail(cands), id)

\* JavaScript truthiness of a number | null | undefined
truthy(n) == n # NoId /\ n # 0

\* context?.lastSpeakerWantsContinue && context.lastSpeakerId, then find
continuingSpeaker(npc, o) ==
  IF o.hasCtx /\ o.wantsContinue /\ truthy(o.lastSpeakerId)
  THEN findById(npc, o.lastSpeakerId)
  ELSE NoId

\* eligible.sort((a, b) => aLast - bLast): a stable sort, here by insertion
RECURSIVE insertByLast(_, _, _)
insertByLast(sorted, c, lsa) ==
  IF sorted = <<>> THEN <<c>>
  ELSE IF lsa[Head(sorted).id] - lsa[c.id] > 0 THEN <<c>> \o sorted
  ELSE <<Head(sorted)>> \o insertByLast(Tail(sorted), c, lsa)

RECURSIVE sortByLast(_, _)
sortByLast(cands, lsa) ==
  IF cands = <<>> THEN <<>>
  ELSE insertByLast(sortByLast(SubSeq(cands, 1, Len(cands) - 1), lsa),
                    cands[Len(cands)], lsa)

pickByCooldown_First(cands, lsa) ==
  IF cands = <<>> THEN NoId ELSE cands[1].id

pickByCooldown(cands, lsa) ==
  IF cands = <<>> THEN NoId ELSE sortByLast(cands, lsa)[1].id

\* aiChooseSpeaker once generateJson has settled. reply.threw covers every
\* error raised inside the try block; a falsy speakerId is "player's turn".
aiChooseSpeaker_Rethrow(npc, reply) ==
  IF reply.threw THEN [threw |-> TRUE, speaker |-> NoId]
  ELSE IF ~truthy(reply.speakerId) THEN [threw |-> FALSE, speaker |-> NoId]
  ELSE [threw |-> FALSE, speaker |-> findById(npc, reply.speakerId)]

aiChooseSpeaker(npc, reply) ==
  IF reply.threw THEN [threw |-> FALSE, speaker |-> NoId]
  ELSE IF ~truthy(reply.speakerId) THEN [threw |-> FALSE, speaker |-> NoId]
  ELSE [threw |-> FALSE, speaker |-> findById(npc, reply.speakerId)]

\* chooseSpeaker up to its first suspension: either it has returned
\* (done, with the speaker or NoId) or it awaits aiChooseSpeaker.
chooseSpeakerSync_NoTurnCheck(g, o, lsa) ==
  LET npc == npcCandidates(o.cands)
      cont == continuingSpeaker(npc, o)
  IN  IF Len(npc) = 0 THEN [done |-> TRUE, speaker |-> NoId]
      ELSE IF cont # NoId THEN [done |-> TRUE, speaker |-> cont]
      ELSE IF ~smGenai \/ ~o.hasCtx
           THEN [done |-> TRUE, speaker |-> pickByCooldown(npc, lsa)]
      ELSE [done |-> FALSE, speaker |-> NoId]

chooseSpeakerSync(g, o, lsa) ==
  LET npc == npcCandidates(o.cands)
      cont == continuingSpeaker(npc, o)
  IN  IF isPlayerTurn(g) THEN [done |-> TRUE, speaker |-> NoId]
      ELSE IF Len(npc) = 0 THEN [done |-> TRUE, speaker |-> NoId]
      ELSE IF cont # NoId THEN [done |-> TRUE, speaker |-> cont]
      ELSE IF ~smGenai \/ ~o.hasCtx
           THEN [done |-> TRUE, speaker |-> pickByCooldown(npc, lsa)]
      ELSE [done |-> FALSE, speaker |-> NoId]

\* chooseSpeaker after aiChooseSpeaker: the pick, else undefined
chooseSpeakerAfterAi_Fallback(npc, pick, lsa) ==
  IF pick # NoId THEN pick ELSE pickByCooldown(npc, lsa)

chooseSpeakerAfterAi(npc, pick, lsa) ==
  IF pick # NoId THEN pick ELSE NoId

(* ------------------------------ nextBeat ------------------------------- *)

\* the poses of each persona's preset, in catalog order
possiblePoses(id) == IF id = 0 THEN <<3, 7>> ELSE <<3>>

\* '' + pose.id
poseName(n) ==
  CASE n = 0 -> "0" [] n = 3 -> "3" [] n = 7 -> "7" [] OTHER -> "?"

\* parseInt of the scene's pose id: NaN for undefined and for text that
\* does not start with a number
NaN == [nan |-> TRUE, n |-> 0]
Num(n) == [nan |-> FALSE, n |-> n]
parseInt(raw) ==
  CASE raw = "0" -> Num(0) [] raw = "3" -> Num(3) [] raw = "7" -> Num(7)
    [] raw = "9" -> Num(9)
    [] OTHER -> NaN

\* truthiness of a number: not NaN and not 0
truthyNum(x) == ~x.nan /\ x.n # 0

\* pickDefaultPoseId: this.poseId ?? data?.poses?.[0]?.id ?? 0, where
\* this.poseId is the preset's first pose (no profile names an initial
\* pose) from the construction on
pickDefaultPoseId(id) == possiblePoses(id)[1]

\* getCurrentPoseId of a persona's character, undefined when unbound
getPose(s, id) == s.currentPose[id]

\* parseInt(scene.poseId) || getCurrentPoseId() || pickDefaultPoseId()
coercePose(s, id, raw) ==
  IF truthyNum(parseInt(raw)) THEN parseInt(raw).n
  ELSE IF truthy(getPose(s, id)) THEN getPose(s, id)
  ELSE pickDefaultPoseId(id)

\* CharacterManager.setPose: nothing happens for an unbound persona
setPose(s, id, poseId) ==
  IF ~socketBound[id] THEN s
  ELSE [s EXCEPT !.currentPose[id] =
                    IF poseId = NoId THEN pickDefaultPoseId(id) ELSE poseId]

\* the mood enumeration
Moods == {"neutral", "happy", "sad", "angry", "surprised", "nervous"}

\* String.prototype.toLowerCase on the emotion values in use
lowerCaseEmotion(e) ==
  CASE e = "HAPPY" -> "happy"
    [] e = "Sad" -> "sad"
    [] OTHER -> e

normalizeMood_AsIs(value) == value

\* normalizeMood: the lowered value when the enumeration has it, else null
\* ("")
normalizeMood(value) ==
  IF lowerCaseEmotion(value) \in Moods THEN lowerCaseEmotion(value) ELSE ""

\* the state of the personas and of the channel they speak on
Persona == <<currentPose, speeches, mood, memory, channel>>

\* commands of the output channel: changeUsername (the identity of a
\* persona) and sendMessage (text, preset and pose)
NoCommand == [kind |-> "none", id |-> NoId, text |-> "", poseId |-> NoId]
Command(kind, id, text, poseId) ==
  [kind |-> kind, id |-> id, text |-> text, poseId |-> poseId]

\* { text: "" }: a draft without a scene
EmptyDraft ==
  [text |-> "", playerTurn |-> FALSE, continueSpeech |-> FALSE,
   poseId |-> NoId, emotion |-> "", memory |-> <<>>]

\* options of a nextBeat / chooseSpeaker call
Options(cands, hasCtx, lastId, wantsContinue) ==
  [cands |-> cands, hasCtx |-> hasCtx, lastSpeakerId |-> lastId,
   wantsContinue |-> wantsContinue, hasPrompt |-> FALSE,
   hasEvidences |-> FALSE, evidences |-> <<>>]

\* options.evidences given; options.prompt given
withEvidences(o, ev) == [o EXCEPT !.hasEvidences = TRUE, !.evidences = ev]
withPrompt(o) == [o EXCEPT !.hasPrompt = TRUE]

\* no reply of the speaker-choice call yet
NoReply == [threw |-> FALSE, speakerId |-> NoId, got |-> FALSE]

IdleBeat ==
  [pc |-> "idle", kind |-> "beat", opts |-> Options(<<>>, FALSE, NoId, FALSE),
   speaker |-> NoId, draft |-> EmptyDraft, svcCalls |-> 0,
   atPlayerTurn |-> FALSE, reply |-> NoReply, before |-> 0,
   speech |-> "none", built |-> FALSE, prompt |-> <<>>,
   rawPose |-> "", poseBefore |-> NoId, supplied |-> 0, claimed |-> FALSE,
   since |-> 0, setup |-> <<>>]

NoRet == [status |-> "none", speakerId |-> NoId, text |-> "", wantsContinue |-> FALSE]
Returned(id, text, wc) ==
  [status |-> "returned", speakerId |-> id, text |-> text, wantsContinue |-> wc]
Threw == [status |-> "threw", speakerId |-> NoId, text |-> "", wantsContinue |-> FALSE]

\* a message on the shared channel: the user id of its sender, and
\* whether its text starts with "[master]"
Message(userId, master) == [userId |-> userId, master |-> master]
NoMessage == Message("none", FALSE)

\* playerId once the roster has named the player; "persona" is the user
\* id of a connection of the program itself
PlayerId == "player"
Messages == {Message(u, m) : u \in {PlayerId, "persona"}, m \in BOOLEAN}

\* no AI window has run yet
NoWindow ==
  [pc |-> "idle", steps |-> 0, lastWantsContinue |-> FALSE, budget |-> 0,
   beats |-> 0, threw |-> FALSE]

\* A rejected promise nobody handles: handleIncomingPlainMessage(message) is
\* not awaited and startJudgeOpening is called with void; the runtime raises
\* it as an uncaught exception, whose handler ends the process.
unhandledRejection(s) == [s EXCEPT !.alive = ~exitOnRejection]

\* runAiWindow after "await caseManager.nextBeat(...)", and the finally of
\* handleIncomingPlainMessage when the loop is left
afterBeatInLoop(s0) ==
  LET r == s0.ret["loop"]
      s == [s0 EXCEPT !.beat["loop"] = IdleBeat, !.ret["loop"] = NoRet]
  IN  IF r.status = "threw"
      THEN unhandledRejection([s EXCEPT !.aiWindowRunning = FALSE,
                                        !.win.pc = "idle", !.win.threw = TRUE])
      ELSE IF r.text = "" \/ ~truthy(r.speakerId)
      THEN [s EXCEPT !.aiWindowRunning = FALSE, !.win.pc = "idle"]
      ELSE [s EXCEPT !.lastSpeakerId = r.speakerId,
                     !.win.lastWantsContinue = r.wantsContinue,
                     !.win.pc = "read"]

\* startJudgeOpening after "await caseManager.nextBeat(...)"
afterBeatInJudge(s0) ==
  LET s == [s0 EXCEPT !.beat["judge"] = IdleBeat, !.ret["judge"] = NoRet,
                      !.judgePc = "done"]
  IN  IF s0.ret["judge"].status = "threw" THEN unhandledRejection(s) ELSE s

\* a sequential caller holds the settled call until it has looked at it
afterCallInApi(s) == [s EXCEPT !.beat["api"].pc = "settled"]

Resume(s, p) ==
  CASE p = "loop" -> afterBeatInLoop(s)
    [] p = "judge" -> afterBeatInJudge(s)
    [] OTHER -> afterCallInApi(s)

Return(s, p, r) == Resume([s EXCEPT !.beat[p].pc = "idle", !.ret[p] = r], p)

\* CharacterManager.sendMessage up to the first await of Character.speech:
\* ensureCharacter throws for an unbound persona; the pose of the draft,
\* when it has one, becomes the current pose, the mood its emotion
\* normalizes to becomes the mood, its memory entries are added, and
\* Character.speech sends changeUsername
sendMessage(s, p, draft) ==
  LET id == s.beat[p].speaker
  IN  IF ~socketBound[id]
      THEN Return(s, p, Threw)
      ELSE LET s1 == IF draft.poseId # NoId
                     THEN setPose(s, id, draft.poseId) ELSE s
               s2 == IF draft.emotion # "" /\ normalizeMood(draft.emotion) # ""
                     THEN [s1 EXCEPT !.mood[id] = normalizeMood(draft.emotion)]
                     ELSE s1
               s3 == [s2 EXCEPT !.memory[id] = @ \o draft.memory]
           IN  [s3 EXCEPT !.beat[p].draft = draft, !.beat[p].pc = "settle",
                          !.beat[p].since = clock,
                          !.channel = Command("changeUsername", id, "", NoId)]

\* CharacterManager.recordSpeech(text)
recordCharacterSpeech(s, id, text) == [s EXCEPT !.speeches[id] = Append(@, text)]

\* nextBeat from "const refined = ..." to the await inside sendMessage
applyDraft(s, p, draft) ==
  sendMessage(recordCharacterSpeech(s, s.beat[p].speaker, draft.text), p, draft)

\* a line of a prompt section, and a section
Line(tag, id, text) == [tag |-> tag, id |-> id, text |-> text]
Section(title, lines) == [title |-> title, lines |-> lines]

getLast20Messages_First(log) ==
  IF Len(log) <= 20 THEN log ELSE SubSeq(log, 1, 20)

\* getLast20Messages: speechLog.slice(-20)
getLast20Messages(log) ==
  IF Len(log) <= 20 THEN log ELSE SubSeq(log, Len(log) - 19, Len(log))

\* buildSpeechLogTranscript: null (no lines) for an empty log, else one
\* line per entry, tagged "Defense" for a falsy speakerId
buildSpeechLogTranscript(log) ==
  LET entries == getLast20Messages(log)
  IN  [i \in 1..Len(entries) |->
         Line(IF truthy(entries[i].speakerId) THEN roleOf(entries[i].speakerId)
              ELSE "Defense",
              entries[i].speakerId, entries[i].text)]

\* options.evidences ?? this.evidences
effectiveEvidences(o, caseEvidences) ==
  IF o.hasEvidences THEN o.evidences ELSE caseEvidences

\* speaker?.role?.toLowerCase() === "prosecutor"
isProsecutor(speaker) == lowerCase(roleOf(speaker)) = "prosecutor"

evidenceTitles_ForAll(o, speaker, caseEvidences) ==
  LET ev == effectiveEvidences(o, caseEvidences)
  IN  IF Len(ev) > 0
      THEN <<Section("Available evidence",
                     [i \in 1..Len(ev) |-> Line("evidence", NoId, ev[i])])>>
      ELSE <<>>

\* the evidence section: for a prosecutor and a non-empty list only
evidenceTitles(o, speaker, caseEvidences) ==
  LET ev == effectiveEvidences(o, caseEvidences)
  IN  IF isProsecutor(speaker) /\ Len(ev) > 0
      THEN <<Section("Available evidence",
                     [i \in 1..Len(ev) |-> Line("evidence", NoId, ev[i])])>>
      ELSE <<>>

\* buildPromptFromState: the sections that are not empty, in order (key
\* points, memories, pose of the last speaker and the message count are
\* not part of the modelled state)
buildPromptFromState(s, o, speaker, caseEvidences) ==
  LET transcript == buildSpeechLogTranscript(s.speechLog)
  IN  <<Section("Story", <<>>)>>
      \o evidenceTitles(o, speaker, caseEvidences)
      \o (IF transcript = <<>> THEN <<>>
          ELSE <<Section("Recent transcript", transcript)>>)
      \o <<Section("Last speaker",
                   <<IF truthy(o.lastSpeakerId)
                     THEN Line("persona", o.lastSpeakerId, "")
                     ELSE Line("player", NoId, "")>>),
           Section("Reply", <<>>)>>

\* nextBeat: options.prompt ?? this.buildPromptFromState(options, character)
promptOf(s, p) ==
  IF s.beat[p].opts.hasPrompt THEN <<Section("Caller", <<>>)>>
  ELSE buildPromptFromState(s, s.beat[p].opts, s.beat[p].speaker, evidences)

\* what follows generateSpeech's return: nextBeat goes on with the draft,
\* a caller of generateSpeech itself (kind "speech") receives it
deliver(s, p, draft) ==
  IF s.beat[p].kind = "speech"
  THEN Return([s EXCEPT !.beat[p].draft = draft], p,
              Returned(s.beat[p].speaker, draft.text, draft.continueSpeech))
  ELSE applyDraft(s, p, draft)

generateSpeech_ServiceTestOnly(s0, p) ==
  LET s == [s0 EXCEPT !.beat[p].built = ~s0.beat[p].opts.hasPrompt,
                      !.beat[p].prompt = promptOf(s0, p)]
  IN  IF ~cmGenai
      THEN deliver(s, p, EmptyDraft)
      ELSE [s EXCEPT !.beat[p].pc = "speechCall", !.beat[p].svcCalls = @ + 1]

\* generateSpeech up to its await: the empty draft without a service or a
\* bound character, else the generateJson call is made with the prompt
generateSpeech(s0, p) ==
  LET s == [s0 EXCEPT !.beat[p].built = ~s0.beat[p].opts.hasPrompt,
                      !.beat[p].prompt = promptOf(s0, p)]
  IN  IF ~cmGenai \/ ~socketBound[s.beat[p].speaker]
      THEN deliver(s, p, EmptyDraft)
      ELSE [s EXCEPT !.beat[p].pc = "speechCall", !.beat[p].svcCalls = @ + 1]

\* history of a call made through the public interface: the pose id the
\* service answered with and the persona's pose at that moment
notePose(s, p, reply) ==
  IF p # "api" THEN s
  ELSE [s EXCEPT !.beat[p].rawPose = reply.poseId,
                 !.beat[p].poseBefore = getPose(s, s.beat[p].speaker)]

\* generateSpeech once generateJson has settled: a thrown error and a
\* response without a scene object (response!.scene!.poseId = ...) both
\* leave generateSpeech by an exception, which nextBeat does not catch
generateSpeechSettled(s0, p, reply) ==
  LET id == s0.beat[p].speaker
      s == notePose([s0 EXCEPT !.beat[p].speech = reply.outcome], p, reply)
  IN
  IF reply.outcome # "draft"
  THEN Return(s, p, Threw)
  ELSE deliver(s, p, [text |-> reply.text, playerTurn |-> reply.playerTurn,
                      continueSpeech |-> reply.continueSpeech,
                      poseId |-> coercePose(s, id, reply.poseId),
                      emotion |-> reply.emotion, memory |-> reply.memory])

afterChoose_ForceOnNone(s, p, speaker) ==
  LET s0 == [s EXCEPT !.beat[p].speaker = speaker]
  IN  IF s.beat[p].kind = "choose" THEN Return(s0, p, Returned(speaker, "", FALSE))
      ELSE IF speaker = NoId
           THEN Return(doForcePlayerTurn(s0), p, Returned(NoId, "", FALSE))
      ELSE LET s1 == recordSpeech(s0, speaker)
           IN  IF \A i \in 1..Len(characters) : characters[i] # speaker
               THEN Return(s1, p, Returned(speaker, "", FALSE))
               ELSE generateSpeech(s1, p)

\* nextBeat (or a direct chooseSpeaker call) once the speaker is known
afterChoose(s, p, speaker) ==
  LET s0 == [s EXCEPT !.beat[p].speaker = speaker]
  IN  IF s.beat[p].kind = "choose" THEN Return(s0, p, Returned(speaker, "", FALSE))
      ELSE IF speaker = NoId THEN Return(s0, p, Returned(NoId, "", FALSE))
      ELSE LET s1 == recordSpeech(s0, speaker)
           IN  IF \A i \in 1..Len(characters) : characters[i] # speaker
               THEN Return(s1, p, Returned(speaker, "", FALSE))
               ELSE generateSpeech(s1, p)

\* a call of nextBeat (kind "beat") or chooseSpeaker (kind "choose") up to
\* its first suspension
startCall(s, p, kind, o) ==
  LET s0 == [s EXCEPT !.beat[p] =
               [IdleBeat EXCEPT !.pc = "run", !.kind = kind, !.opts = o,
                                !.atPlayerTurn = isPlayerTurn(govOf(s)),
                                !.before = s.aiTurnsRemaining],
             !.ret[p] = NoRet]
      c  == chooseSpeakerSync(govOf(s), o, s.lastSpokenAt)
  IN  IF c.done THEN afterChoose(s0, p, c.speaker)
      ELSE [s0 EXCEPT !.beat[p].pc = "chooseCall", !.beat[p].svcCalls = @ + 1]

nextBeat(s, p, o) == startCall(s, p, "beat", o)

\* chooseSpeaker resumed after "await this.aiChooseSpeaker(...)"
chooseSettled(s0, p, reply) ==
  LET npc == npcCandidates(s0.beat[p].opts.cands)
      ai  == aiChooseSpeaker(npc, reply)
      s   == [s0 EXCEPT !.beat[p].reply =
                [threw |-> reply.threw, speakerId |-> reply.speakerId, got |-> TRUE]]
  IN  IF ai.threw THEN Return(s, p, Threw)
      ELSE afterChoose(s, p, chooseSpeakerAfterAi(npc, ai.speaker, s.lastSpokenAt))

\* Character.speech after the 300 ms settling delay: the message is sent
\* with the pose the character is in by then
speechSettle(s, p) ==
  [s EXCEPT !.beat[p].pc = "sent",
            !.beat[p].since = clock,
            !.channel = Command("sendMessage", s.beat[p].speaker,
                                s.beat[p].draft.text,
                                getPose(s, s.beat[p].speaker))]

\* nextBeat after "await character.sendMessage(refined)"
finishBeat(s, p) ==
  LET b  == s.beat[p]
      s1 == logSpeech(s, b.speaker, b.draft.text)
      s2 == doCompleteAiTurn(s1)
      s3 == IF b.draft.playerTurn THEN doForcePlayerTurn(s2) ELSE s2
      r  == Returned(b.speaker, b.draft.text, b.draft.continueSpeech)
      s4 == [s3 EXCEPT !.window.delivered =
                Append(@, [speakerId |-> r.speakerId, text |-> r.text])]
  IN  Return(s4, p, r)

(* ----------------------------- environment ----------------------------- *)

\* what generateJson yields for the speaker-choice schema
ChooseReplies ==
  IF serviceDown THEN {[threw |-> TRUE, speakerId |-> NoId]}
  ELSE {[threw |-> TRUE, speakerId |-> NoId]}
       \cup {[threw |-> FALSE, speakerId |-> i] : i \in AllIds \cup {NoId}}

\* the pose ids a scene may carry for a persona: none, text that is not
\* a number, "0", and the names the schema lists
RawPoses(id) ==
  {"", "not-a-number", "0"}
    \cup {poseName(possiblePoses(id)[i]) : i \in 1..Len(possiblePoses(id))}

\* what generateJson yields for the speech schema of a persona: an error,
\* a response without a scene object, or a draft
SpeechReplies(id) ==
  LET none == [outcome |-> "throw", text |-> "", playerTurn |-> FALSE,
               continueSpeech |-> FALSE, poseId |-> "", emotion |-> "",
               memory |-> <<>>]
  IN  IF serviceDown THEN {none}
      ELSE {none, [none EXCEPT !.outcome = "noScene"]}
           \cup {[outcome |-> "draft", text |-> t, playerTurn |-> pt,
                  continueSpeech |-> cs, poseId |-> raw, emotion |-> "",
                  memory |-> <<>>] :
                   t \in Texts, pt \in BOOLEAN, cs \in BOOLEAN,
                   raw \in RawPoses(id)}

\* emotions a scene may carry: none, values of the enumeration in several
\* letter cases, and a value the enumeration does not have
Emotions == {"", "happy", "HAPPY", "Sad", "furious"}

\* what generateJson may yield for the speech schema when the response is
\* not held to the schema: in addition, a numeric pose id that names no
\* pose of the preset, any emotion text, and memory entries, one or more
\* than the schema's maxItems
DraftReplies(id) ==
  IF serviceDown THEN SpeechReplies(id)
  ELSE LET plain == [outcome |-> "draft", text |-> "a", playerTurn |-> FALSE,
                     continueSpeech |-> FALSE, poseId |-> "3", emotion |-> "",
                     memory |-> <<>>]
       IN  SpeechReplies(id)
             \cup {[plain EXCEPT !.poseId = "9"]}
             \cup {[plain EXCEPT !.emotion = e] : e \in Emotions}
             \cup {[plain EXCEPT !.emotion = e, !.memory = <<"m">>] :
                     e \in {"", "HAPPY"}}
             \cup {[plain EXCEPT !.memory = <<"m", "m", "m", "m", "m">>]}

\* sequences without repetition over S, of length at most n
RECURSIVE SeqsNoRep(_, _)
SeqsNoRep(S, n) ==
  IF n = 0 THEN {<<>>}
  ELSE LET shorter == SeqsNoRep(S, n - 1)
       IN  shorter \cup
           {Append(e[1], e[2]) :
              e \in {f \in shorter \X S :
                       Len(f[1]) = n - 1 /\ \A i \in 1..Len(f[1]) : f[1][i] # f[2]}}

\* the persona sets the program's case is created with, in profile order:
\* Judge and Witness (the fallback ids), a generated set whose first id is
\* 0, and a set without a judge
Cases == {<<10, 4>>, <<0, 10>>, <<4>>}

\* the case of a caller of CaseManager: 10 is then no persona of the case
ApiCase == <<0, 4>>

\* candidate lists a caller of chooseSpeaker / nextBeat passes
CandLists ==
  {[i \in 1..Len(q) |-> Cand(q[i], q[i] \in HumanIds)] : q \in SeqsNoRep(CandIds, MaxCands)}

\* state.characters.map(...) in runAiWindow: every persona of the case
caseCandidates == [i \in 1..Len(characters) |-> Cand(characters[i], FALSE)]

\* state.characters.find((c) => c.role?.toLowerCase() === "judge")
RECURSIVE findJudge(_)
findJudge(chars) ==
  IF chars = <<>> THEN NoId
  ELSE IF roleOf(Head(chars)) = "Judge" THEN Head(chars)
  ELSE findJudge(Tail(chars))

inCase(i) == \E k \in 1..Len(characters) : characters[k] = i

\* no repeated selection has begun
NoPicks == [cands |-> <<>>, ids |-> <<>>, fresh |-> FALSE]

(* ----------------------- presets of the personas ----------------------- *)

\* Character.getCachedCharacters(): the catalog, in its order
Presets ==
  <<[id |-> 1, side |-> "defense"], [id |-> 2, side |-> "prosecution"],
    [id |-> 3, side |-> "witness"], [id |-> 5, side |-> "judge"],
    [id |-> 6, side |-> "witness"], [id |-> 8, side |-> "defense"]>>

disallowedCharacterIds == {1}

\* the preset ids a profile may carry: none (0), the disallowed one, two
\* of the catalog
SuppliedIds == {0, 1, 2, 3}

\* a profile of a persona; its role is the persona's
Profile(id, characterId) ==
  [id |-> id, role |-> roleOf(id), characterId |-> characterId]

\* the side a role maps to, "none" for null
resolveCharacterSide(role) ==
  CASE lowerCase(role) = "witness" -> "witness"
    [] lowerCase(role) = "judge" -> "judge"
    [] lowerCase(role) = "prosecutor" -> "prosecution"
    [] lowerCase(role) = "defendant" -> "defense"
    [] OTHER -> "none"

\* the characters, their presets and the claimed preset ids of a manager
CaseSet(chars, presets, used) ==
  [characters |-> chars, presetOf |-> presets, used |-> used]

\* pickUnusedCharacterId: the first preset of the side (of the catalog,
\* without a side) neither used nor disallowed; an error when there is none
pickUnusedCharacterId_AnyUnused(used, side) ==
  LET free(i) == /\ side # "none" => Presets[i].side = side
                 /\ Presets[i].id \notin used
      avail == {i \in 1..Len(Presets) : free(i)}
  IN  IF avail = {} THEN [threw |-> TRUE, id |-> 0]
      ELSE [threw |-> FALSE,
            id |-> Presets[CHOOSE i \in avail : \A j \in avail : i <= j].id]

pickUnusedCharacterId(used, side) ==
  LET free(i) == /\ side # "none" => Presets[i].side = side
                 /\ Presets[i].id \notin used
                 /\ Presets[i].id \notin disallowedCharacterIds
      avail == {i \in 1..Len(Presets) : free(i)}
  IN  IF avail = {} THEN [threw |-> TRUE, id |-> 0]
      ELSE [threw |-> FALSE,
            id |-> Presets[CHOOSE i \in avail : \A j \in avail : i <= j].id]

\* ensureCharacterId: the preset id the profile ends with and the claimed
\* ids after it
ensureCharacterId(used, profile) ==
  LET side == resolveCharacterSide(profile.role)
      pick == pickUnusedCharacterId(used, side)
      assigned == IF pick.threw THEN [threw |-> TRUE, id |-> 0, used |-> used]
                  ELSE [threw |-> FALSE, id |-> pick.id,
                        used |-> used \cup {pick.id}]
  IN  IF profile.characterId # 0
      THEN IF profile.characterId \in disallowedCharacterIds
           THEN assigned
           ELSE [threw |-> FALSE, id |-> profile.characterId,
                 used |-> used \cup {profile.characterId}]
      ELSE assigned

\* Map.set: a new key goes last, a known key keeps its place
mapSet(chars, id) ==
  IF \E i \in 1..Len(chars) : chars[i] = id THEN chars ELSE Append(chars, id)

\* addCharacter
addCharacter(cs, profile) ==
  LET h == ensureCharacterId(cs.used, profile)
  IN  IF h.threw THEN [threw |-> TRUE, cs |-> cs]
      ELSE [threw |-> FALSE,
            cs |-> CaseSet(mapSet(cs.characters, profile.id),
                           [cs.presetOf EXCEPT ![profile.id] = h.id], h.used)]

\* profiles.forEach((profile) => this.addCharacter(profile)): the first
\* error ends the loop and leaves what was added
RECURSIVE addEach(_, _)
addEach(cs, profiles) ==
  IF profiles = <<>> THEN [threw |-> FALSE, cs |-> cs]
  ELSE LET r == addCharacter(cs, Head(profiles))
       IN  IF r.threw THEN r ELSE addEach(r.cs, Tail(profiles))

\* createCharacterSet: both collections are cleared first
createCharacterSet(profiles) ==
  addEach(CaseSet(<<>>, [i \in AllIds |-> 0], {}), profiles)

\* bindSocket: a bound persona's character starts in the default pose
InitPoses ==
  currentPose = [i \in AllIds |->
                   IF socketBound[i] THEN pickDefaultPoseId(i) ELSE NoId]

\* the personas of the case were created from profiles without preset ids
InitPresets ==
  LET r == createCharacterSet([i \in 1..Len(characters) |->
                                 Profile(characters[i], 0)])
  IN  /\ presetOf = r.cs.presetOf
      /\ usedCharacterIds = r.cs.used
      /\ caseBuilt = TRUE

InitCommon ==
  /\ awaitingPlayer = TRUE
  /\ aiTurnsRemaining = 0
  /\ lastSpokenAt = [i \in AllIds |-> 0]
  /\ speechLog = <<>>
  /\ serviceDown \in BOOLEAN
  /\ beat = [p \in Procs |-> IdleBeat]
  /\ ret = [p \in Procs |-> NoRet]
  /\ aiWindowRunning = FALSE
  /\ lastSpeakerId = NoId
  /\ win = NoWindow
  /\ alive = TRUE
  /\ playerMessages = 0
  /\ received = NoMessage
  /\ clock = 1
  /\ window = [budget |-> 0, completed |-> 0, forced |-> FALSE,
                logAtOpen |-> 0, delivered |-> <<>>]
  /\ picks = NoPicks
  /\ speeches = [i \in AllIds |-> <<>>]
  /\ mood = [i \in AllIds |-> "neutral"]
  /\ memory = [i \in AllIds |-> <<>>]
  /\ channel = NoCommand
  /\ keyPoints = <<>>
  /\ keyPointIndex = 0

\* the program after main(): one client for both managers, every persona
\* bound to the master socket, the judge opening on its 800 ms timer
Init ==
  /\ InitCommon
  /\ characters \in Cases
  /\ smGenai = TRUE
  /\ cmGenai = TRUE
  /\ socketBound = [i \in AllIds |-> inCase(i)]
  /\ judgePc = "timer"
  /\ exitOnRejection \in BOOLEAN
  /\ playerIsAi \in BOOLEAN
  /\ evidences = <<"knife">>
  /\ InitPoses
  /\ InitPresets

\* a StoryManager as a caller may construct it
InitStory ==
  /\ InitCommon
  /\ characters = ApiCase
  /\ smGenai \in BOOLEAN
  /\ cmGenai = smGenai
  /\ socketBound = [i \in AllIds |-> inCase(i)]
  /\ judgePc = "done"
  /\ exitOnRejection = TRUE
  /\ playerIsAi = FALSE
  /\ evidences = <<>>
  /\ InitPoses
  /\ InitPresets

\* a CaseManager and its StoryManager as a caller may construct them; the
\* persona 0 may be left unbound
InitCase ==
  /\ InitCommon
  /\ characters = ApiCase
  /\ smGenai \in BOOLEAN
  /\ cmGenai \in BOOLEAN
  /\ \E b \in BOOLEAN : socketBound = [i \in AllIds |-> inCase(i) /\ (i = 0 => b)]
  /\ judgePc = "done"
  /\ exitOnRejection = TRUE
  /\ playerIsAi = FALSE
  /\ evidences = <<"knife">>
  /\ InitPoses
  /\ InitPresets

\* what is fixed once the managers are constructed and the case created
Config == <<smGenai, cmGenai, serviceDown, characters, socketBound,
            exitOnRejection, playerIsAi>>

\* the messages received
Inbox == <<playerMessages, received>>

\* what only the case-building calls change
CaseData == <<evidences, presetOf, usedCharacterIds, caseBuilt>>

\* the key points of the story and the cursor into them
KeyPointData == <<keyPoints, keyPointIndex>>

Static == UNCHANGED <<Config, CaseData, KeyPointData, clock, picks>>

(* ------------------- steps shared by every caller ---------------------- *)

\* the generative service answers the speaker-choice call of caller p
ChooseReply(p) ==
  /\ alive
  /\ beat[p].pc = "chooseCall"
  /\ \E reply \in ChooseReplies : Commit(chooseSettled(State, p, reply))
  /\ Static /\ UNCHANGED Inbox

\* the generative service answers the speech call of caller p
SpeechReply(p) ==
  /\ alive
  /\ beat[p].pc = "speechCall"
  /\ \E reply \in SpeechReplies(beat[p].speaker) :
       Commit(generateSpeechSettled(State, p, reply))
  /\ Static /\ UNCHANGED Inbox

\* the 300 ms timer of Character.speech fires
SpeechSettle(p) ==
  /\ alive
  /\ beat[p].pc = "settle"
  /\ Commit(speechSettle(State, p))
  /\ Static /\ UNCHANGED Inbox

\* the 100 ms timer of Character.speech fires and nextBeat runs to its end
BeatSent(p) ==
  /\ alive
  /\ beat[p].pc = "sent"
  /\ Commit(finishBeat(State, p))
  /\ Static /\ UNCHANGED Inbox

(* ------------------------- orchestration layer ------------------------- *)

\* the while condition of runAiWindow and, when it holds, the next beat up
\* to its first suspension; when it fails, the finally of
\* handleIncomingPlainMessage
runAiWindowTest_NoCeiling(s) ==
  IF hasAiTurnAvailable(govOf(s))
  THEN nextBeat([s EXCEPT !.win.pc = "beat", !.win.beats = @ + 1], "loop",
                withEvidences(Options(caseCandidates, TRUE, s.lastSpeakerId,
                                      s.win.lastWantsContinue), evidences))
  ELSE [s EXCEPT !.aiWindowRunning = FALSE, !.win.pc = "idle"]

runAiWindowTest(s) ==
  IF hasAiTurnAvailable(govOf(s)) /\ s.win.steps < MAX_AI_MESSAGES
  THEN nextBeat([s EXCEPT !.win.pc = "beat", !.win.beats = @ + 1], "loop",
                withEvidences(Options(caseCandidates, TRUE, s.lastSpeakerId,
                                      s.win.lastWantsContinue), evidences))
  ELSE [s EXCEPT !.aiWindowRunning = FALSE, !.win.pc = "idle"]

handleIncomingPlainMessage_NoSenderTest(s, m) ==
  LET s1 == logSpeech([s EXCEPT !.lastSpeakerId = NoId], NoId, "p")
  IN  IF m.master THEN s
      ELSE IF playerIsAi THEN s1
      ELSE IF s1.aiWindowRunning THEN s1
      ELSE runAiWindowTest(
             [doBeginPlayerTurn([s1 EXCEPT !.aiWindowRunning = TRUE], MAX_AI_MESSAGES)
                EXCEPT !.win = [NoWindow EXCEPT !.pc = "run",
                                                !.budget = MAX_AI_MESSAGES]])

\* handleIncomingPlainMessage up to the first suspension of runAiWindow:
\* a "[master]" text and a sender other than the player are ignored, the
\* player's message is logged and, unless a window is running, opens one
handleIncomingPlainMessage(s, m) ==
  LET s1 == logSpeech([s EXCEPT !.lastSpeakerId = NoId], NoId, "p")
  IN  IF m.master THEN s
      ELSE IF m.userId # PlayerId THEN s
      ELSE IF playerIsAi THEN s1
      ELSE IF s1.aiWindowRunning THEN s1
      ELSE runAiWindowTest(
             [doBeginPlayerTurn([s1 EXCEPT !.aiWindowRunning = TRUE], MAX_AI_MESSAGES)
                EXCEPT !.win = [NoWindow EXCEPT !.pc = "run",
                                                !.budget = MAX_AI_MESSAGES]])

\* masterCourt.onMessage for a message on the shared channel
ReceiveMessage ==
  /\ alive
  /\ playerMessages < MaxPlayerMessages
  /\ \E m \in Messages :
       /\ received' = m
       /\ Commit(handleIncomingPlainMessage(State, m))
  /\ playerMessages' = playerMessages + 1
  /\ Static

\* masterCourt.onMessage for a message the player typed
PlayerMessage ==
  /\ alive
  /\ playerMessages < MaxPlayerMessages
  /\ playerMessages' = playerMessages + 1
  /\ received' = Message(PlayerId, FALSE)
  /\ Commit(handleIncomingPlainMessage(State, Message(PlayerId, FALSE)))
  /\ Static

\* runAiWindow after "await delay(readingDelayMs + animationDelay)"
ReadDelay ==
  /\ alive
  /\ win.pc = "read"
  /\ Commit(runAiWindowTest([State EXCEPT !.win.steps = @ + 1]))
  /\ Static /\ UNCHANGED Inbox

\* the 800 ms timer of main(): startJudgeOpening up to "await delay(200)"
JudgeTimer ==
  /\ alive
  /\ judgePc = "timer"
  /\ Commit([State EXCEPT !.judgePc =
               IF findJudge(characters) = NoId THEN "done" ELSE "delay200"])
  /\ Static /\ UNCHANGED Inbox

JudgeDelay200 ==
  /\ alive
  /\ judgePc = "delay200"
  /\ Commit([State EXCEPT !.judgePc = "delay300"])
  /\ Static /\ UNCHANGED Inbox

\* startJudgeOpening from "storyManager.openAiWindow(1)" on
startJudgeOpening(s) ==
  LET judge == findJudge(characters)
  IN  nextBeat(doOpenAiWindow([s EXCEPT !.judgePc = "beat"], 1), "judge",
               withPrompt(withEvidences(
                 Options(<<Cand(judge, FALSE)>>, TRUE, judge, FALSE), evidences)))

JudgeDelay300 ==
  /\ alive
  /\ judgePc = "delay300"
  /\ Commit(startJudgeOpening(State))
  /\ Static /\ UNCHANGED Inbox

Next ==
  \/ PlayerMessage
  \/ ReadDelay
  \/ JudgeTimer
  \/ JudgeDelay200
  \/ JudgeDelay300
  \/ \E p \in {"loop", "judge"} : ChooseReply(p)
  \/ \E p \in {"loop", "judge"} : SpeechReply(p)
  \/ \E p \in {"loop", "judge"} : SpeechSettle(p)
  \/ \E p \in {"loop", "judge"} : BeatSent(p)

Spec == Init /\ [][Next]_vars

\* the program with every message of the shared channel: the player's,
\* the "[master]" notes and the speeches of the personas
NextChannel ==
  \/ ReceiveMessage
  \/ ReadDelay
  \/ JudgeTimer
  \/ JudgeDelay200
  \/ JudgeDelay300
  \/ \E p \in {"loop", "judge"} : ChooseReply(p)
  \/ \E p \in {"loop", "judge"} : SpeechReply(p)
  \/ \E p \in {"loop", "judge"} : SpeechSettle(p)
  \/ \E p \in {"loop", "judge"} : BeatSent(p)

SpecChannel == Init /\ [][NextChannel]_vars

\* every await of the program resumes: the service returns or throws, and
\* timers fire
FairSpec ==
  /\ Spec
  /\ WF_vars(ReadDelay) /\ WF_vars(JudgeTimer)
  /\ WF_vars(JudgeDelay200) /\ WF_vars(JudgeDelay300)
  /\ \A p \in {"loop", "judge"} :
       /\ WF_vars(ChooseReply(p)) /\ WF_vars(SpeechReply(p))
       /\ WF_vars(SpeechSettle(p)) /\ WF_vars(BeatSent(p))

(* --------------------- callers of the public methods ------------------- *)

ApiIdle == alive /\ beat["api"].pc = "idle"
ApiFrame == Static /\ UNCHANGED Inbox

\* turns a caller passes to openAiWindow: undefined (NoId), zero, positive
BudgetArgs == (0 - 1)..MaxBudget

ApiBeginPlayerTurn ==
  /\ ApiIdle
  /\ \E n \in 0..MaxBudget : Commit(doBeginPlayerTurn(State, n))
  /\ ApiFrame

ApiOpenAiWindow ==
  /\ ApiIdle
  /\ \E n \in BudgetArgs : Commit(doOpenAiWindow(State, n))
  /\ ApiFrame

ApiCompleteAiTurn ==
  /\ ApiIdle
  /\ Commit(doCompleteAiTurn(State))
  /\ ApiFrame

ApiForcePlayerTurn ==
  /\ ApiIdle
  /\ Commit(doForcePlayerTurn(State))
  /\ ApiFrame

\* chooseSpeaker(candidates, context?) called directly
ApiChooseSpeaker ==
  /\ ApiIdle
  /\ \E cands \in CandLists, hasCtx, wc \in BOOLEAN, lastId \in PersonaIds \cup {NoId} :
       /\ ~hasCtx => (lastId = NoId /\ ~wc)
       /\ Commit(startCall(State, "api", "choose", Options(cands, hasCtx, lastId, wc)))
  /\ ApiFrame

\* nextBeat(options) called directly
ApiNextBeat ==
  /\ ApiIdle
  /\ Len(speechLog) < MaxBeats
  /\ \A i \in AllIds : Len(speeches[i]) < MaxBeats
  /\ \E cands \in CandLists, wc \in BOOLEAN, lastId \in PersonaIds \cup {NoId} :
       Commit(nextBeat(State, "api", Options(cands, TRUE, lastId, wc)))
  /\ ApiFrame

\* the caller has looked at the settled call
ApiAck ==
  /\ alive
  /\ beat["api"].pc = "settled"
  /\ Commit([State EXCEPT !.beat["api"] = IdleBeat, !.ret["api"] = NoRet])
  /\ ApiFrame

NextStory ==
  \/ ApiBeginPlayerTurn
  \/ ApiOpenAiWindow
  \/ ApiCompleteAiTurn
  \/ ApiForcePlayerTurn
  \/ ApiChooseSpeaker
  \/ ChooseReply("api")
  \/ ApiAck

SpecStory == InitStory /\ [][NextStory]_vars

NextCase ==
  \/ ApiOpenAiWindow
  \/ ApiNextBeat
  \/ ChooseReply("api")
  \/ SpeechReply("api")
  \/ SpeechSettle("api")
  \/ BeatSent("api")
  \/ ApiAck

SpecCase == InitCase /\ [][NextCase]_vars

(* ------------- repeated selection by the deterministic pick ------------ *)

\* a StoryManager whose caller selects speakers and records them
InitCooldown ==
  /\ InitStory
  /\ serviceDown = FALSE

\* the selection history after a chooseSpeaker call with options o: the
\* same candidate list goes on, another one (or a continuation request)
\* starts over; a list counts as fresh when none of its non-human
\* candidates has spoken yet
roundAfterSelect(pk, o, lsa) ==
  IF o.cands = pk.cands /\ ~o.wantsContinue THEN pk
  ELSE [cands |-> o.cands, ids |-> <<>>,
        fresh |-> /\ ~o.wantsContinue
                  /\ Len(npcCandidates(o.cands)) >= 1
                  /\ \A i \in 1..Len(o.cands) :
                       ~o.cands[i].isHuman => lsa[o.cands[i].id] = 0]

\* chooseSpeaker(candidates, context?) by a caller that records its picks
ApiSelect ==
  /\ ApiIdle
  /\ Len(picks.ids) < MaxPicks
  /\ \E cands \in CandLists, hasCtx \in BOOLEAN, wc \in BOOLEAN :
       LET o == Options(cands, hasCtx, IF wc THEN 4 ELSE NoId, wc)
       IN  /\ ~hasCtx => ~wc
           /\ Commit(startCall(State, "api", "choose", o))
           /\ picks' = roundAfterSelect(picks, o, lastSpokenAt)
  /\ UNCHANGED <<Config, CaseData, KeyPointData, clock, Inbox>>

\* recordSpeech(speaker.id) for the speaker the call returned
ApiRecordSpeech ==
  /\ alive
  /\ beat["api"].pc = "settled"
  /\ ret["api"].status = "returned"
  /\ ret["api"].speakerId # NoId
  /\ Commit([recordSpeech(State, ret["api"].speakerId) EXCEPT
               !.beat["api"] = IdleBeat, !.ret["api"] = NoRet])
  /\ picks' = IF picks.fresh
              THEN [picks EXCEPT !.ids = Append(@, ret["api"].speakerId)]
              ELSE picks
  /\ UNCHANGED <<Config, CaseData, KeyPointData, clock, Inbox>>

\* a millisecond passes
Tick ==
  /\ clock < MaxClock
  /\ clock' = clock + 1
  /\ UNCHANGED <<awaitingPlayer, aiTurnsRemaining, lastSpokenAt, speechLog,
                 beat, ret, aiWindowRunning, lastSpeakerId, win, judgePc,
                 alive, window, picks, Config, CaseData, KeyPointData,
                 Inbox, Persona>>

NextCooldown ==
  \/ ApiOpenAiWindow
  \/ ApiSelect
  \/ ChooseReply("api")
  \/ ApiRecordSpeech
  \/ ApiAck
  \/ Tick

SpecCooldown == InitCooldown /\ [][NextCooldown]_vars

(* ------------------- prompts built for the personas -------------------- *)

\* a CaseManager whose StoryManager picks deterministically, created with
\* any evidence list
InitPrompt ==
  /\ InitCommon
  /\ characters = ApiCase
  /\ smGenai = FALSE
  /\ cmGenai = TRUE
  /\ serviceDown = FALSE
  /\ socketBound = [i \in AllIds |-> inCase(i)]
  /\ judgePc = "done"
  /\ exitOnRejection = TRUE
  /\ playerIsAi = FALSE
  /\ evidences \in EvidenceLists
  /\ InitPoses
  /\ InitPresets

\* addEvidence(evidence)
ApiAddEvidence ==
  /\ ApiIdle
  /\ Len(evidences) < MaxEvidence
  /\ \E n \in EvidenceNames : evidences' = Append(evidences, n)
  /\ UNCHANGED <<awaitingPlayer, aiTurnsRemaining, lastSpokenAt, speechLog,
                 beat, ret, aiWindowRunning, lastSpeakerId, win, judgePc,
                 alive, window, picks, Config, clock, Inbox,
                 Persona, presetOf, usedCharacterIds, caseBuilt,
                 KeyPointData>>

\* nextBeat(options) for one candidate, with or without options.evidences
ApiNextBeatFor ==
  /\ ApiIdle
  /\ Len(speechLog) < MaxBeats
  /\ \A i \in AllIds : Len(speeches[i]) < MaxBeats
  /\ \E id \in PersonaIds, lastId \in {NoId, 4}, given \in BOOLEAN,
        ev \in EvidenceLists :
       /\ ~given => ev = <<>>
       /\ LET o == Options(<<Cand(id, FALSE)>>, TRUE, lastId, FALSE)
          IN  Commit(nextBeat(State, "api",
                              IF given THEN withEvidences(o, ev) ELSE o))
  /\ ApiFrame

NextPrompt ==
  \/ ApiOpenAiWindow
  \/ ApiAddEvidence
  \/ ApiNextBeatFor
  \/ SpeechReply("api")
  \/ SpeechSettle("api")
  \/ BeatSent("api")
  \/ ApiAck

SpecPrompt == InitPrompt /\ [][NextPrompt]_vars

(* ------------------ calls on the personas of a case -------------------- *)

\* a CaseManager whose StoryManager picks deterministically; the persona 0
\* may be left unbound
InitPersona ==
  /\ InitCommon
  /\ characters = ApiCase
  /\ smGenai = FALSE
  /\ cmGenai \in BOOLEAN
  /\ \E b \in BOOLEAN : socketBound = [i \in AllIds |-> inCase(i) /\ (i = 0 => b)]
  /\ judgePc = "done"
  /\ exitOnRejection = TRUE
  /\ playerIsAi = FALSE
  /\ evidences = <<"knife">>
  /\ InitPoses
  /\ InitPresets

\* getCharacter(id).setPose(poseId?) on a persona of the case; the call is
\* synchronous and returns what setPose leaves behind
ApiSetPose ==
  /\ ApiIdle
  /\ \E i \in 1..Len(characters), poseId \in {NoId, 3, 7} :
       LET id == characters[i]
           s  == [State EXCEPT !.beat["api"].kind = "setPose",
                               !.beat["api"].speaker = id,
                               !.beat["api"].poseBefore = getPose(State, id)]
       IN  Commit(Return(setPose(s, id, poseId), "api", Returned(id, "", FALSE)))
  /\ ApiFrame

NextPersona ==
  \/ ApiOpenAiWindow
  \/ ApiNextBeatFor
  \/ SpeechReply("api")
  \/ SpeechSettle("api")
  \/ BeatSent("api")
  \/ ApiSetPose
  \/ ApiAck

SpecPersona == InitPersona /\ [][NextPersona]_vars

(* ---------------- drafts of any content, and their delivery ------------ *)

\* nextBeat(options) for one candidate of the case
ApiNextBeatOf ==
  /\ ApiIdle
  /\ Len(speechLog) < MaxBeats
  /\ \A i \in AllIds : Len(speeches[i]) < MaxBeats
  /\ \E id \in PersonaIds :
       Commit(nextBeat(State, "api", Options(<<Cand(id, FALSE)>>, TRUE, NoId, FALSE)))
  /\ ApiFrame

\* getCharacter(id).generateSpeech(prompt, genai) on a persona of the case,
\* with the client of the case manager, up to its await
ApiGenerateSpeech ==
  /\ ApiIdle
  /\ \E i \in 1..Len(characters) :
       LET o == withPrompt(Options(<<>>, FALSE, NoId, FALSE))
           s == [State EXCEPT !.beat["api"] =
                   [IdleBeat EXCEPT !.pc = "run", !.kind = "speech", !.opts = o,
                                    !.speaker = characters[i]],
                 !.ret["api"] = NoRet]
       IN  Commit(generateSpeech(s, "api"))
  /\ ApiFrame

\* the generative service answers the speech call of caller p with a
\* response of any content
DraftReply(p) ==
  /\ alive
  /\ beat[p].pc = "speechCall"
  /\ \E reply \in DraftReplies(beat[p].speaker) :
       Commit(generateSpeechSettled(State, p, reply))
  /\ Static /\ UNCHANGED Inbox

NextDraft ==
  \/ ApiOpenAiWindow
  \/ ApiNextBeatOf
  \/ ApiGenerateSpeech
  \/ DraftReply("api")
  \/ SpeechSettle("api")
  \/ BeatSent("api")
  \/ ApiAck

SpecDraft == InitPersona /\ [][NextDraft]_vars

(* ------------------ beats while the clock goes on ---------------------- *)

\* candidate lists without a human candidate
NpcLists == {q \in CandLists : \A i \in 1..Len(q) : ~q[i].isHuman}

\* nextBeat(options) without a context: the deterministic fallback picks
ApiNextBeatByFallback ==
  /\ ApiIdle
  /\ Len(speechLog) < MaxBeats
  /\ \A i \in AllIds : Len(speeches[i]) < MaxBeats
  /\ \E cands \in NpcLists :
       Commit(nextBeat(State, "api", Options(cands, FALSE, NoId, FALSE)))
  /\ ApiFrame

\* a timer of Character.speech fires: at least a millisecond has passed
\* since it was set
SpeechSettleLater(p) == beat[p].since < clock /\ SpeechSettle(p)
BeatSentLater(p) == beat[p].since < clock /\ BeatSent(p)

NextRecord ==
  \/ ApiOpenAiWindow
  \/ ApiNextBeatByFallback
  \/ SpeechReply("api")
  \/ SpeechSettleLater("api")
  \/ BeatSentLater("api")
  \/ ApiAck
  \/ Tick

SpecRecord == InitPersona /\ [][NextRecord]_vars

(* ------------------------ the transcript log --------------------------- *)

\* logSpeech(speakerId, name, text) by a caller: entries of persona 4, and
\* at most one entry of the player in a log
ApiLogSpeech ==
  /\ ApiIdle
  /\ Len(speechLog) < MaxLog
  /\ \E mine \in BOOLEAN :
       /\ mine => \A i \in 1..Len(speechLog) : speechLog[i].speakerId # NoId
       /\ Commit(IF mine THEN logSpeech(State, NoId, "p")
                 ELSE logSpeech(State, 4, "a"))
  /\ ApiFrame

\* buildSpeechLogTranscript() by a caller, and the block of the prompt
\* made from it
ApiTranscript ==
  /\ ApiIdle
  /\ LET t == buildSpeechLogTranscript(speechLog)
         s == [State EXCEPT !.beat["api"].kind = "transcript",
                 !.beat["api"].prompt =
                    IF t = <<>> THEN <<>>
                    ELSE <<Section("Recent transcript", t)>>]
     IN  Commit(Return(s, "api", Returned(NoId, "", FALSE)))
  /\ ApiFrame

NextTranscript ==
  \/ ApiLogSpeech
  \/ ApiTranscript
  \/ ApiAck

SpecTranscript == InitStory /\ [][NextTranscript]_vars

(* --------------------------- the key points --------------------------- *)

\* the names of key points, and the lists a caller may set
KeyPointNames == {"k1", "k2"}
KeyPointLists == UNION {[1..n -> KeyPointNames] : n \in 0..2}

advanceKeyPoint_Wrap(points, index) ==
  IF index < Len(points) - 1 THEN index + 1 ELSE 0

\* advanceKeyPoint: the cursor after the call
advanceKeyPoint(points, index) ==
  IF index < Len(points) - 1 THEN index + 1 ELSE index

\* getCurrentKeyPoint: keyPoints[keyPointIndex], "" for undefined
getCurrentKeyPoint(points, index) ==
  IF index < Len(points) THEN points[index + 1] ELSE ""

\* what the key point calls leave alone
KeyPointFrame ==
  UNCHANGED <<Config, CaseData, clock, picks, Inbox>>

\* the key point call of the api caller has returned
keyPointCall(kind, text) ==
  Commit(Return([State EXCEPT !.beat["api"].kind = kind], "api",
                Returned(NoId, text, FALSE)))

\* setKeyPoints(points)
ApiSetKeyPoints ==
  /\ ApiIdle
  /\ \E points \in KeyPointLists :
       /\ keyPoints' = points
       /\ keyPointIndex' = 0
  /\ keyPointCall("setKeyPoints", "")
  /\ KeyPointFrame

\* addKeyPoint(point)
ApiAddKeyPoint ==
  /\ ApiIdle
  /\ Len(keyPoints) < MaxKeyPoints
  /\ \E point \in KeyPointNames : keyPoints' = Append(keyPoints, point)
  /\ UNCHANGED keyPointIndex
  /\ keyPointCall("addKeyPoint", "")
  /\ KeyPointFrame

\* advanceKeyPoint()
ApiAdvanceKeyPoint ==
  /\ ApiIdle
  /\ keyPointIndex' = advanceKeyPoint(keyPoints, keyPointIndex)
  /\ UNCHANGED keyPoints
  /\ keyPointCall("advanceKeyPoint",
                  getCurrentKeyPoint(keyPoints, advanceKeyPoint(keyPoints, keyPointIndex)))
  /\ KeyPointFrame

NextKeyPoints ==
  \/ ApiSetKeyPoints
  \/ ApiAddKeyPoint
  \/ ApiAdvanceKeyPoint
  \/ ApiAck

SpecKeyPoints == InitStory /\ [][NextKeyPoints]_vars

(* ------------------------ generating the case -------------------------- *)

\* JSON values the service may answer with: null, an object with or
\* without a prompt property (a text, the empty text, a number), a text,
\* an array of n items that are objects of the schema ("ok"), other
\* objects ("bad") or null
JsonNull == [kind |-> "null", n |-> 0, prompt |-> "none", items |-> "ok"]
JsonObject(prompt) == [kind |-> "object", n |-> 0, prompt |-> prompt, items |-> "ok"]
JsonString(n) == [kind |-> "string", n |-> n, prompt |-> "none", items |-> "ok"]
JsonArray(n, items) == [kind |-> "array", n |-> n, prompt |-> "none", items |-> items]

JsonValues ==
  {JsonNull, JsonString(0), JsonString(3), JsonArray(0, "ok")}
    \cup {JsonObject(p) : p \in {"none", "", "x", "num"}}
    \cup {JsonArray(n, i) : n \in 1..2, i \in {"ok", "bad", "null"}}

\* what generateContent yields: an error, JSON of a value, or text that
\* is no JSON (empty or not)
SetupReplies ==
  IF serviceDown THEN {[threw |-> TRUE, json |-> FALSE, value |-> JsonNull]}
  ELSE {[threw |-> TRUE, json |-> FALSE, value |-> JsonNull]}
       \cup {[threw |-> FALSE, json |-> TRUE, value |-> v] : v \in JsonValues}
       \cup {[threw |-> FALSE, json |-> FALSE, value |-> JsonObject(t)] :
               t \in {"", "x"}}

\* parseJsonOrCoerce: the parsed value; text that does not parse becomes
\* { prompt: text } under a schema with a prompt property and
\* { value: text } otherwise
parseJsonOrCoerce(reply, hasPromptProperty) ==
  IF reply.json THEN reply.value
  ELSE IF hasPromptProperty THEN reply.value
  ELSE JsonObject("none")

\* value.length: undefined (NoId) for an object
jsLength(v) == IF v.kind \in {"array", "string"} THEN v.n ELSE NoId

\* the result of a generator: its fallback, or what the service gave
Fallback == [threw |-> FALSE, fallback |-> TRUE, value |-> JsonNull]
Generated(v) == [threw |-> FALSE, fallback |-> FALSE, value |-> v]

\* generateCasePrompt: raw.prompt of null, and sanitize of a prompt that
\* is no text, throw inside the try block
generateCasePrompt(genai, reply) ==
  IF ~genai THEN Fallback
  ELSE IF reply.threw THEN Fallback
  ELSE LET raw == parseJsonOrCoerce(reply, TRUE)
       IN  IF raw.kind = "null" THEN Fallback
           ELSE IF raw.prompt \in {"none", "num"} THEN Fallback
           ELSE IF raw.prompt = "" THEN Fallback
           ELSE Generated(raw)

\* generateEvidence: parsed.length > 0 ? parsed : FALLBACK_EVIDENCE;
\* parsed.length of null throws inside the try block
generateEvidence(genai, reply) ==
  IF ~genai THEN Fallback
  ELSE IF reply.threw THEN Fallback
  ELSE LET parsed == parseJsonOrCoerce(reply, FALSE)
       IN  IF parsed.kind = "null" THEN Fallback
           ELSE IF jsLength(parsed) # NoId /\ jsLength(parsed) > 0
           THEN Generated(parsed)
           ELSE Fallback

\* generateTrialCharacters: the fallback unless Array.isArray(parsed) and
\* parsed.length > 0; c.id of a null item throws inside the try block
generateTrialCharacters(genai, reply) ==
  IF ~genai THEN Fallback
  ELSE IF reply.threw THEN Fallback
  ELSE LET parsed == parseJsonOrCoerce(reply, FALSE)
       IN  IF parsed.kind # "array" \/ parsed.n = 0 THEN Fallback
           ELSE IF parsed.items = "null" THEN Fallback
           ELSE Generated(parsed)

\* a generator is called with the client of the managers and has settled
\* with result r
setupCall(kind, reply, r) ==
  Commit(Return([State EXCEPT !.beat["api"].kind = kind,
                              !.beat["api"].svcCalls = IF cmGenai THEN 1 ELSE 0,
                              !.beat["api"].setup = <<reply, r>>],
                "api", IF r.threw THEN Threw ELSE Returned(NoId, "", FALSE)))

ApiGenerateCasePrompt ==
  /\ ApiIdle
  /\ \E reply \in SetupReplies :
       setupCall("generateCasePrompt", reply, generateCasePrompt(cmGenai, reply))
  /\ ApiFrame

ApiGenerateEvidence ==
  /\ ApiIdle
  /\ \E reply \in SetupReplies :
       setupCall("generateEvidence", reply, generateEvidence(cmGenai, reply))
  /\ ApiFrame

ApiGenerateTrialCharacters ==
  /\ ApiIdle
  /\ \E reply \in SetupReplies :
       setupCall("generateTrialCharacters", reply,
                 generateTrialCharacters(cmGenai, reply))
  /\ ApiFrame

NextSetup ==
  \/ ApiGenerateCasePrompt
  \/ ApiGenerateEvidence
  \/ ApiGenerateTrialCharacters
  \/ ApiAck

SpecSetup == InitStory /\ [][NextSetup]_vars

(* -------------------------- building a case ---------------------------- *)

\* a CaseManager just constructed
InitCatalog ==
  /\ InitCommon
  /\ characters = <<>>
  /\ smGenai = FALSE
  /\ cmGenai = FALSE
  /\ serviceDown = FALSE
  /\ socketBound = [i \in AllIds |-> FALSE]
  /\ judgePc = "done"
  /\ exitOnRejection = TRUE
  /\ playerIsAi = FALSE
  /\ evidences = <<>>
  /\ InitPoses
  /\ presetOf = [i \in AllIds |-> 0]
  /\ usedCharacterIds = {}
  /\ caseBuilt = FALSE

\* the profiles a caller may pass, and the lists of them
Profiles ==
  {Profile(id, c) : id \in PersonaIds, c \in SuppliedIds}
    \cup {[Profile(0, c) EXCEPT !.role = "Defendant"] : c \in {0, 1}}
ProfileLists ==
  UNION {[1..n -> Profiles] : n \in 0..MaxProfiles}

\* what the case-building calls leave alone
CatalogFrame ==
  UNCHANGED <<smGenai, cmGenai, serviceDown, socketBound, exitOnRejection,
              playerIsAi, clock, picks, Inbox>>

\* the case-building call of the api caller has settled
builtCall(kind, r, supplied, claimed) ==
  Return([State EXCEPT !.beat["api"].kind = kind,
                       !.beat["api"].supplied = supplied,
                       !.beat["api"].claimed = claimed],
         "api", IF r.threw THEN Threw ELSE Returned(NoId, "", FALSE))

\* createCase(definition)
ApiCreateCase ==
  /\ ApiIdle
  /\ \E profiles \in ProfileLists, ev \in {<<>>, <<"knife">>} :
       LET r == createCharacterSet(profiles)
       IN  /\ evidences' = ev
           /\ characters' = r.cs.characters
           /\ presetOf' = r.cs.presetOf
           /\ usedCharacterIds' = r.cs.used
           /\ caseBuilt' = ~r.threw
           /\ keyPoints' = <<>>
           /\ keyPointIndex' = 0
           /\ Commit(builtCall("createCase", r, 0, FALSE))
  /\ CatalogFrame

\* addCharacter(profile)
ApiAddCharacter ==
  /\ ApiIdle
  /\ \E profile \in Profiles :
       LET r == addCharacter(CaseSet(characters, presetOf, usedCharacterIds),
                             profile)
       IN  /\ characters' = r.cs.characters
           /\ presetOf' = r.cs.presetOf
           /\ usedCharacterIds' = r.cs.used
           /\ caseBuilt' = (caseBuilt /\ ~r.threw)
           /\ Commit(builtCall("addCharacter", r, profile.characterId,
                               profile.characterId \in usedCharacterIds))
  /\ UNCHANGED <<evidences, KeyPointData>>
  /\ CatalogFrame

\* the caller has looked at the settled call
ApiAckBuilt ==
  /\ alive
  /\ beat["api"].pc = "settled"
  /\ Commit([State EXCEPT !.beat["api"] = IdleBeat, !.ret["api"] = NoRet])
  /\ UNCHANGED <<characters, CaseData, KeyPointData>>
  /\ CatalogFrame

NextCatalog ==
  \/ ApiCreateCase
  \/ ApiAddCharacter
  \/ ApiAckBuilt

SpecCatalog == InitCatalog /\ [][NextCatalog]_vars

(* ------------------ the governor with any budget ----------------------- *)

\* the numbers a caller may pass as a budget: negative, zero, positive
BudgetNumbers == {0 - MaxBudget} \cup 0..MaxBudget

\* beginPlayerTurn(username, aiTurnBudget) with a number or undefined
ApiBeginPlayerTurnAny ==
  /\ ApiIdle
  /\ \E n \in BudgetNumbers \cup {NoId} : Commit(doBeginPlayerTurn(State, n))
  /\ ApiFrame

\* openAiWindow(turns) with a number or undefined
ApiOpenAiWindowAny ==
  /\ ApiIdle
  /\ \E n \in BudgetNumbers \cup {NoId} : Commit(doOpenAiWindow(State, n))
  /\ ApiFrame

NextGovernor ==
  \/ ApiBeginPlayerTurnAny
  \/ ApiOpenAiWindowAny
  \/ ApiCompleteAiTurn
  \/ ApiForcePlayerTurn
  \/ ApiChooseSpeaker
  \/ ChooseReply("api")
  \/ ApiAck

SpecGovernor == InitStory /\ [][NextGovernor]_vars

(* ------------- governor calls and beats by one caller ------------------ *)

\* the governor methods and nextBeat, which makes the chooseSpeaker call
NextTurns ==
  \/ ApiOpenAiWindow
  \/ ApiBeginPlayerTurn
  \/ ApiCompleteAiTurn
  \/ ApiForcePlayerTurn
  \/ ApiNextBeatFor
  \/ ChooseReply("api")
  \/ SpeechReply("api")
  \/ SpeechSettle("api")
  \/ BeatSent("api")
  \/ ApiAck

SpecTurns == InitCase /\ [][NextTurns]_vars

(* ----------------------------- properties ------------------------------ *)

\* the call the sequential caller has made, and its non-human candidates
apiCall == beat["api"]
apiNpc == npcCandidates(apiCall.opts.cands)
apiChose == apiCall.kind = "choose" /\ apiCall.pc = "settled"

\* C1: from the state openAiWindow(n) or beginPlayerTurn(n) produces with
\* n >= 1, and with no forcePlayerTurn since, isPlayerTurn() is false after
\* every k < n calls of completeAiTurn() and true after the n-th and after
\* every further call; the remaining count is n - k floored at 0.
C1_HumanTurnAfterExactlyN ==
  (window.budget >= 1 /\ ~window.forced) =>
     /\ isPlayerTurn(Gov) <=> window.completed >= window.budget
     /\ aiTurnsRemaining = Max(window.budget - window.completed, 0)

\* a window of two turns after a third completeAiTurn()
C1_Witness ==
  /\ window.budget = 2 /\ window.completed = 3 /\ ~window.forced
  /\ aiTurnsRemaining = 0 /\ isPlayerTurn(Gov)

\* C2: once forcePlayerTurn() has been called, whatever the window and the
\* count remaining before it, isPlayerTurn() holds and hasAiTurnAvailable()
\* does not, until a window is opened again.
C2_ForceYieldsHumanTurn ==
  window.forced => (isPlayerTurn(Gov) /\ ~hasAiTurnAvailable(Gov))

\* forced in a window of two turns of which none was completed
C2_Witness ==
  /\ window.forced /\ window.budget = 2 /\ window.completed = 0
  /\ isPlayerTurn(Gov)

\* C3: at most one execution of nextBeat is in progress at any time, over
\* the AI window loop and the judge opening.
C3_OneBeatAtATime ==
  Cardinality({p \in {"loop", "judge"} : beat[p].pc # "idle"}) <= 1

\* C4: the loop of a window opened with budget K and ceiling M starts at
\* most min(K, M) beats, whatever the drafts' continueSpeech and whoever
\* speaks.
C4_WindowBounded == win.beats <= Min(win.budget, MAX_AI_MESSAGES)

\* a window that has ended after min(K, M) beats, the last of them asking
\* to continue
C4_Witness ==
  /\ win.beats = Min(win.budget, MAX_AI_MESSAGES) /\ win.beats >= 2
  /\ win.lastWantsContinue /\ win.pc = "idle" /\ ~aiWindowRunning

\* C5: when a beat of the window has thrown, aiWindowRunning is false
\* again and the program still accepts the player's next message.
C5_AcceptedAfterThrow == win.threw => (~aiWindowRunning /\ alive)

\* C6: a chooseSpeaker call made while isPlayerTurn() holds returns none
\* in the same step, makes no generative call and changes neither the
\* governor, the last-spoken-at map nor the speech log.
C6_NoneOnPlayerTurn ==
  [][(/\ beat["api"].pc = "idle"
      /\ beat'["api"].pc # "idle"
      /\ beat'["api"].kind = "choose"
      /\ isPlayerTurn(Gov))
       => (/\ beat'["api"].pc = "settled"
           /\ ret'["api"] = Returned(NoId, "", FALSE)
           /\ beat'["api"].svcCalls = 0
           /\ UNCHANGED <<awaitingPlayer, aiTurnsRemaining, lastSpokenAt,
                          speechLog>>)]_vars

\* none returned on the player's turn although the last speaker asked to
\* continue and is among the candidates
C6_Witness ==
  /\ apiChose /\ apiCall.atPlayerTurn /\ apiCall.opts.wantsContinue
  /\ apiCall.opts.lastSpeakerId = 4 /\ findById(apiNpc, 4) = 4
  /\ ret["api"] = Returned(NoId, "", FALSE)

\* C7: a chooseSpeaker call made in an open window, with
\* lastSpeakerWantsContinue and the persona of lastSpeakerId among the
\* non-human candidates, returns that persona without a generative call.
C7_ContinuationPriority ==
  (/\ apiCall.kind = "choose" /\ apiCall.pc # "idle"
   /\ ~apiCall.atPlayerTurn
   /\ apiCall.opts.hasCtx /\ apiCall.opts.wantsContinue
   /\ apiCall.opts.lastSpeakerId # NoId
   /\ findById(apiNpc, apiCall.opts.lastSpeakerId) # NoId)
    => (/\ apiCall.pc = "settled"
        /\ ret["api"] = Returned(apiCall.opts.lastSpeakerId, "", FALSE)
        /\ apiCall.svcCalls = 0)

C10_NextBeatNeverThrows ==
  (/\ serviceDown
   /\ \A i \in AllIds : inCase(i) => socketBound[i]
   /\ apiCall.kind = "beat")
    => ret["api"].status # "threw"

\* C11: with the generative service throwing on every call, a nextBeat
\* made in an open window leaves the remaining count smaller than it was,
\* or the governor at the human's turn.
C11_TurnAdvancesWhenServiceDown ==
  (/\ serviceDown
   /\ apiCall.kind = "beat" /\ apiCall.pc = "settled"
   /\ ~apiCall.atPlayerTurn)
    => (aiTurnsRemaining < apiCall.before \/ isPlayerTurn(Gov))

\* C12: whatever beat fails, the process is not terminated.
C12_SessionKeepsRunning == alive

\* C13: a nextBeat call in which a speaker was chosen leaves the remaining
\* count one lower than before (floored at 0), and at 0 with the governor
\* at the human's turn when the applied draft has playerTurn.
C13_BeatAdvancesGovernor ==
  (apiCall.kind = "beat" /\ apiCall.pc = "settled" /\ apiCall.speaker # NoId)
    => /\ aiTurnsRemaining =
            IF apiCall.draft.playerTurn THEN 0 ELSE Max(apiCall.before - 1, 0)
       /\ apiCall.draft.playerTurn => isPlayerTurn(Gov)

\* C14: when the n beats of a window opened with budget n >= 1 have each
\* delivered a speech and none asked for the human's turn, the governor is
\* at the human's turn with nothing remaining, and the speech log has grown
\* by exactly n entries: the speakers and texts the beats returned, in call
\* order.
C14_WindowEndToEnd ==
  (/\ window.budget >= 1
   /\ Len(window.delivered) = window.budget
   /\ ~window.forced)
    => /\ isPlayerTurn(Gov) /\ aiTurnsRemaining = 0
       /\ Len(speechLog) = window.logAtOpen + window.budget
       /\ \A k \in 1..window.budget :
            speechLog[window.logAtOpen + k] = window.delivered[k]

\* a window of two beats by two different personas, persona 0 among them
C14_Witness ==
  /\ window.budget = 2 /\ Len(window.delivered) = 2 /\ ~window.forced
  /\ window.delivered[1].speakerId = 0 /\ window.delivered[2].speakerId = 4
  /\ window.delivered[2].text = "a"
  /\ beat["api"].pc = "idle"

\* of the candidates npc, the one that spoke least recently (never is
\* before ever), the earliest in the list among equals
leastRecentlySpoken(npc, lsa) ==
  npc[CHOOSE i \in 1..Len(npc) :
        \A j \in 1..Len(npc) :
           \/ lsa[npc[i].id] < lsa[npc[j].id]
           \/ (lsa[npc[i].id] = lsa[npc[j].id] /\ i <= j)].id

\* C15: a chooseSpeaker call in an open window, without a generative
\* service or without a context, and with no continuation applying,
\* returns the non-human candidate with the smallest last-spoken-at time,
\* never-spoken before spoken, the earliest in the list among equals.
C15_DeterministicFallback ==
  (/\ apiChose /\ ~apiCall.atPlayerTurn
   /\ Len(apiNpc) > 0
   /\ (~smGenai \/ ~apiCall.opts.hasCtx)
   /\ continuingSpeaker(apiNpc, apiCall.opts) = NoId)
    => ret["api"] = Returned(leastRecentlySpoken(apiNpc, lastSpokenAt), "", FALSE)

\* the second of two candidates is returned: both have spoken, the first
\* one later
C15_Witness ==
  /\ apiChose /\ ~apiCall.atPlayerTurn /\ Len(apiNpc) = 2
  /\ lastSpokenAt[apiNpc[2].id] >= 1
  /\ lastSpokenAt[apiNpc[1].id] > lastSpokenAt[apiNpc[2].id]
  /\ ret["api"] = Returned(apiNpc[2].id, "", FALSE)

\* C16: without a generative service, selecting repeatedly from m
\* candidates none of whom had spoken, each selection recorded before the
\* next, picks them in list order for the first m selections, and every m
\* consecutive selections pick every candidate once.
C16_RoundRobin ==
  (picks.fresh /\ ~smGenai) =>
     LET npc == npcCandidates(picks.cands)
         m   == Len(npc)
         n   == Len(picks.ids)
     IN  /\ \A k \in 1..Min(m, n) : picks.ids[k] = npc[k].id
         /\ \A k \in 1..n :
              k + m - 1 <= n =>
                Cardinality({picks.ids[j] : j \in k..(k + m - 1)}) = m

\* a prompt holds the evidence section
hasEvidenceSection(prompt) ==
  \E i \in 1..Len(prompt) : prompt[i].title = "Available evidence"

\* C17: the prompt nextBeat builds for a persona holds the evidence section
\* exactly when the persona's role is prosecutor in any letter case and the
\* evidence list is not empty; for any other persona the prompt is the
\* same whatever the evidence of the case and of the options.
C17_EvidenceVisibility ==
  (apiCall.pc = "speechCall" /\ apiCall.built) =>
     LET o  == apiCall.opts
         sp == apiCall.speaker
         prosecutor == roleOf(sp) \in {"prosecutor", "Prosecutor", "PROSECUTOR"}
     IN  /\ hasEvidenceSection(apiCall.prompt)
              <=> (prosecutor /\ effectiveEvidences(o, evidences) # <<>>)
         /\ ~prosecutor =>
              \A e1 \in EvidenceLists, e2 \in EvidenceLists :
                 /\ buildPromptFromState(State, o, sp, e1) = apiCall.prompt
                 /\ buildPromptFromState(State, withEvidences(o, e2), sp, e1)
                      = apiCall.prompt

\* a prompt built for the witness of a case with evidence, and one built
\* for the prosecutor
C17_Witness ==
  /\ apiCall.pc = "speechCall" /\ apiCall.built
  /\ apiCall.speaker = 4 /\ roleOf(4) = "Witness"
  /\ effectiveEvidences(apiCall.opts, evidences) = <<"knife", "note">>
  /\ ~hasEvidenceSection(apiCall.prompt)
  /\ Len(speechLog) > 0

\* the service answered the api caller's speech call with a pose id that
\* is absent or is not a number, a response without a scene included
apiPoseUnusable ==
  /\ apiCall.kind = "beat"
  /\ apiCall.speech \in {"draft", "noScene"}
  /\ parseInt(apiCall.rawPose).nan

\* C18: when the service's draft has no pose id or one that is not a
\* number, a draft without a scene object included, generateSpeech does
\* not throw and the draft it returns carries the persona's current pose
\* id (or the first pose of its preset).
C18_PoseCoercion ==
  apiPoseUnusable =>
     /\ ret["api"].status # "threw"
     /\ apiCall.pc \in {"settle", "settled"}
          => apiCall.draft.poseId =
               (IF truthy(apiCall.poseBefore) THEN apiCall.poseBefore
                ELSE pickDefaultPoseId(apiCall.speaker))

\* the api caller's call on a persona of the case that is not bound
apiOnUnbound ==
  /\ apiCall.pc = "settled"
  /\ inCase(apiCall.speaker) /\ ~socketBound[apiCall.speaker]

\* C19: a call that asks an unbound persona to act raises an error: a beat
\* that reaches sendMessage for it throws, and so does setPose; neither
\* returns normally.
C19_UnboundFailsLoudly ==
  (apiOnUnbound /\ apiCall.kind \in {"beat", "setPose"})
     => ret["api"].status = "threw"

\* C20: once createCase has completed, and every addCharacter since, no
\* two personas of the case hold the same preset id; and an addCharacter
\* whose profile supplies a preset id that is already claimed does not
\* return normally.
C20_UniquePresets ==
  /\ caseBuilt =>
       \A i, j \in 1..Len(characters) :
          i # j => presetOf[characters[i]] # presetOf[characters[j]]
  /\ (apiCall.kind = "addCharacter" /\ apiCall.pc = "settled"
        /\ apiCall.supplied # 0 /\ apiCall.claimed)
       => ret["api"].status = "threw"

\* C21: in every state the governor reaches by beginPlayerTurn,
\* openAiWindow, completeAiTurn and forcePlayerTurn with any budget
\* (zero, negative and undefined too), the remaining count is a
\* non-negative integer, awaitingPlayer implies that it is 0, and
\* isPlayerTurn() holds exactly when it is 0.
C21_GovernorWellFormed ==
  /\ aiTurnsRemaining \in Nat
  /\ awaitingPlayer => aiTurnsRemaining = 0
  /\ isPlayerTurn(Gov) <=> aiTurnsRemaining = 0

\* a step that is no call of beginPlayerTurn or openAiWindow leaves the
\* remaining count as it is or lowers it, and brings the human's turn only
\* from a count of 1 that it lowers to 0 or by the forcePlayerTurn a draft
\* (or the caller) asks for
withinWindow ==
  /\ aiTurnsRemaining' <= aiTurnsRemaining
  /\ (~isPlayerTurn(Gov) /\ isPlayerTurn(Governor(awaitingPlayer', aiTurnsRemaining')))
       => /\ aiTurnsRemaining' = 0
          /\ aiTurnsRemaining = 1 \/ (window'.forced /\ ~window.forced)

\* C22: between two calls of beginPlayerTurn / openAiWindow the remaining
\* count never increases, whatever completeAiTurn, forcePlayerTurn,
\* chooseSpeaker and nextBeat do, and the governor reaches the human's turn
\* only by the count reaching 0 or by a forced human turn.
C22_MonotoneWithinWindow ==
  [][ApiOpenAiWindow \/ ApiBeginPlayerTurn \/ withinWindow]_vars

\* a beat has lowered the count of a window of two to one, and a later
\* beat's draft has asked for the human's turn
C22_Witness ==
  /\ apiCall.kind = "beat" /\ apiCall.pc = "settled"
  /\ ret["api"].status = "returned"
  /\ window.budget = 2 /\ window.completed = 2 /\ window.forced
  /\ apiCall.draft.playerTurn /\ apiCall.before = 1
  /\ aiTurnsRemaining = 0

\* a step leaves the transcript as it is or adds one entry at its end; an
\* entry of a persona is the one of a beat that completes in this step
logAppended ==
  \/ speechLog' = speechLog
  \/ /\ Len(speechLog') = Len(speechLog) + 1
     /\ SubSeq(speechLog', 1, Len(speechLog)) = speechLog
     /\ LET e == speechLog'[Len(speechLog')]
        IN  e.speakerId # NoId =>
              \E p \in Procs :
                 /\ beat[p].pc = "sent" /\ beat'[p].pc # "sent"
                 /\ e.speakerId = beat[p].speaker
                 /\ e.text = beat[p].draft.text

\* a beat that completes in a step adds its entry to the transcript
completedLogged ==
  \A p \in Procs :
     (beat[p].pc = "sent" /\ beat'[p].pc # "sent") =>
        /\ Len(speechLog') = Len(speechLog) + 1
        /\ speechLog'[Len(speechLog')].speakerId = beat[p].speaker

\* C23: the transcript is append-only: no step changes, removes or moves an
\* entry, every new entry goes to the end, and the entries of the personas
\* are in the order in which their beats completed, under every
\* interleaving of player messages, the judge opening and running beats.
C23_LogAppendOnly == [][logAppended /\ completedLogged]_vars

\* a player entry, the entry of a completed beat, and a player entry that
\* arrived while the next beat was running
C23_Witness ==
  /\ Len(speechLog) >= 3
  /\ speechLog[1].speakerId = NoId
  /\ speechLog[2].speakerId # NoId
  /\ speechLog[3].speakerId = NoId
  /\ \E p \in {"loop", "judge"} : beat[p].pc = "sent"

\* the beat of caller p is suspended at an await
suspended(p) == beat[p].pc \in {"chooseCall", "speechCall", "settle", "sent"}

\* the beat of caller p has recorded its text in the speech history of its
\* speaker and gone through sendMessage's changes of pose, mood and memory
applying(p) ==
  /\ beat[p].pc \in {"settle", "sent"}
  /\ Len(speeches[beat[p].speaker]) > 0

\* C24: a beat is suspended only at an await of the generative service,
\* and never between its modifications: once it has written the speech
\* history and the pose, mood and memory of its speaker, it is not
\* suspended before the transcript entry and the turn advance.
C24_BeatAtomic ==
  \A p \in Procs :
     suspended(p) =>
        /\ beat[p].pc \in {"chooseCall", "speechCall"}
        /\ ~applying(p)

\* a player message is handled while the AI window is running
messageDuringWindow == aiWindowRunning /\ playerMessages' # playerMessages

\* C25: a player message received while an AI window is running starts no
\* second loop and changes neither the governor nor the transcript nor the
\* last-speaker variable the running loop passes to its next beat.
C25_LoopOwnsState ==
  [][messageDuringWindow =>
       /\ UNCHANGED <<win, beat>>
       /\ UNCHANGED <<awaitingPlayer, aiTurnsRemaining>>
       /\ UNCHANGED <<speechLog, lastSpeakerId>>]_vars

\* the pose ids of a persona's preset
validPose(id, n) == \E i \in 1..Len(possiblePoses(id)) : possiblePoses(id)[i] = n

\* the api caller's beat has generated a draft and applied it to a bound
\* persona
apiDelivered ==
  /\ apiCall.kind = "beat"
  /\ apiCall.speech = "draft"
  /\ apiCall.pc \in {"settle", "sent", "settled"}
  /\ socketBound[apiCall.speaker]

\* C26: after a draft is generated and applied to a bound persona, the
\* persona's current pose id and the pose id sent on the output channel
\* are pose ids of that persona's preset, whatever pose value the service
\* answered with (a numeric id outside the preset, and 0, included).
C26_NoInvalidPose ==
  apiDelivered =>
     /\ validPose(apiCall.speaker, currentPose[apiCall.speaker])
     /\ channel.kind = "sendMessage" => validPose(channel.id, channel.poseId)

\* sendMessage is reached in the api caller's beat in this step
apiSends == beat["api"].pc # "settle" /\ beat'["api"].pc = "settle"

\* C27: a persona's mood is always one of the six enumeration values;
\* sendMessage sets it to the draft's emotion, lowered, when the emotion
\* equals an enumeration value ignoring letter case, and every other step,
\* a sendMessage with another emotion or with none included, leaves it
\* unchanged.
C27_MoodEnumerated ==
  [][\A i \in AllIds :
       /\ mood'[i] \in Moods
       /\ IF /\ apiSends
             /\ beat'["api"].speaker = i
             /\ lowerCaseEmotion(beat'["api"].draft.emotion) \in Moods
          THEN mood'[i] = lowerCaseEmotion(beat'["api"].draft.emotion)
          ELSE mood'[i] = mood[i]]_vars

\* an emotion in capitals has become the mood, and a later draft with an
\* emotion outside the enumeration has left it alone
C27_Witness ==
  /\ apiCall.pc = "settle"
  /\ apiCall.draft.emotion = "furious"
  /\ mood[apiCall.speaker] = "happy"
  /\ speeches[apiCall.speaker] = <<"a", "a">>

\* a call of generateSpeech made by the api caller, in this step, on a
\* persona without a character or with no client
apiSpeechUnable ==
  /\ beat["api"].pc = "idle"
  /\ beat'["api"].kind = "speech"
  /\ ~cmGenai \/ ~socketBound[beat'["api"].speaker]

\* C28: generateSpeech returns the empty draft (text "") when no
\* generative service is configured or the persona is not bound to a live
\* channel; it then makes no call to the service and changes nothing of
\* the persona (pose, mood, memory, speech history) or of its channel.
C28_EmptyDraftWithoutService ==
  [][apiSpeechUnable =>
       /\ beat'["api"].pc = "settled"
       /\ ret'["api"].status = "returned"
       /\ ret'["api"].text = ""
       /\ beat'["api"].draft = EmptyDraft
       /\ beat'["api"].svcCalls = 0
       /\ UNCHANGED Persona]_vars

\* generateSpeech has returned from a persona that is not bound, with a
\* client configured
C28_Witness ==
  /\ apiCall.kind = "speech"
  /\ apiCall.pc = "settled"
  /\ cmGenai /\ ~socketBound[apiCall.speaker]
  /\ ret["api"].status = "returned"

\* the api caller's nextBeat has returned a speaker
apiBeatReturned ==
  /\ apiCall.kind = "beat"
  /\ apiCall.pc = "settled"
  /\ ret["api"].status = "returned"
  /\ ret["api"].speakerId # NoId

\* the speaker has an entry in the last-spoken-at map, not earlier than
\* any other entry
recordedLatest(id) ==
  /\ lastSpokenAt[id] >= 1
  /\ \A j \in AllIds : lastSpokenAt[j] <= lastSpokenAt[id]

\* the deterministic fallback, asked next with any candidate list that
\* holds the speaker and another candidate, does not pick the speaker
rankedMostRecent(id) ==
  \A q \in NpcLists :
    (Len(q) >= 2 /\ \E i \in 1..Len(q) : q[i].id = id)
      => pickByCooldown(q, lastSpokenAt) # id

\* C29: whenever nextBeat returns a non-null speakerId, the last-spoken-at
\* map holds an entry for that id whose time is not earlier than any time
\* recorded before the call, and the next deterministic fallback ranks
\* that persona as the most recently spoken: it picks another candidate.
C29_SelectionRecorded ==
  apiBeatReturned =>
     /\ recordedLatest(ret["api"].speakerId)
     /\ rankedMostRecent(ret["api"].speakerId)

\* caller p's beat sends its change-identity command in this step, and its
\* speak command
emitsIdentity(p) == beat[p].pc # "settle" /\ beat'[p].pc = "settle"
emitsSpeech(p) == beat[p].pc = "settle" /\ beat'[p].pc = "sent"

\* the updates of the persona are in place when the identity command of
\* p's beat is sent, and nothing of the persona changes with the speak
\* command
appliedBeforeEmit(p) ==
  /\ emitsIdentity(p) =>
       LET id == beat'[p].speaker
           d  == beat'[p].draft
       IN  /\ channel' = Command("changeUsername", id, "", NoId)
           /\ speeches'[id] = Append(speeches[id], d.text)
           /\ memory'[id] = memory[id] \o d.memory
           /\ d.poseId # NoId => currentPose'[id] = d.poseId
           /\ lowerCaseEmotion(d.emotion) \in Moods
                => mood'[id] = lowerCaseEmotion(d.emotion)
  /\ emitsSpeech(p) =>
       /\ channel' = Command("sendMessage", beat[p].speaker, beat[p].draft.text,
                             currentPose[beat[p].speaker])
       /\ UNCHANGED <<currentPose, speeches, mood, memory>>

\* the speak command of p's beat directly follows the identity command of
\* the same beat
identityThenSpeech(p) ==
  emitsSpeech(p) => channel = Command("changeUsername", beat[p].speaker, "", NoId)

\* C30: for every delivered speech the persona's pose, mood, memory and
\* speech history are updated before anything is sent on the channel, and
\* the change-identity command of a beat is followed by the speak command
\* of the same beat with no command of another beat between them, all
\* personas sharing one channel.
C30_ApplyThenEmit ==
  [][\A p \in Procs : appliedBeforeEmit(p) /\ identityThenSpeech(p)]_vars

\* the presets of the catalog on the side of a profile's role, any preset
\* for a role without a side
sidePresets(id) ==
  {Presets[i].id : i \in {k \in 1..Len(Presets) :
      \E role \in {roleOf(id), "Defendant"} :
         resolveCharacterSide(role) = Presets[k].side}}

\* an addCharacter call whose profile supplies a disallowed preset id
\* completes in this step
reassigns ==
  /\ beat["api"].pc = "idle"
  /\ beat'["api"].kind = "addCharacter"
  /\ beat'["api"].supplied \in disallowedCharacterIds
  /\ ret'["api"].status = "returned"

\* C31: no persona holds a disallowed preset id and none is ever claimed;
\* a profile that supplies a disallowed id gets a catalog preset of its
\* role's side that was unused and is not disallowed.
C31_NoDisallowedPreset ==
  [][/\ \A i \in 1..Len(characters') :
          presetOf'[characters'[i]] \notin disallowedCharacterIds
     /\ usedCharacterIds' \cap disallowedCharacterIds = {}
     /\ reassigns =>
          \E id \in PersonaIds :
             /\ \E i \in 1..Len(characters') : characters'[i] = id
             /\ presetOf'[id] \in sidePresets(id)
             /\ presetOf'[id] \notin usedCharacterIds
             /\ presetOf'[id] \notin disallowedCharacterIds
             /\ usedCharacterIds' = usedCharacterIds \cup {presetOf'[id]}]_vars

\* a defendant's profile came with the disallowed preset and holds the
\* other defense preset of the catalog
C31_Witness ==
  /\ apiCall.kind = "addCharacter" /\ apiCall.pc = "settled"
  /\ apiCall.supplied = 1
  /\ ret["api"].status = "returned"
  /\ presetOf[0] = 8

\* the api caller's transcript call has returned
apiTranscript == apiCall.kind = "transcript" /\ apiCall.pc = "settled"

\* C32: for a log of length L the transcript covers the last min(20, L)
\* entries, one line each in append order, and an empty log gives no
\* transcript block.
C32_Last20Only ==
  apiTranscript =>
     LET L == Len(speechLog)
         n == IF L < 20 THEN L ELSE 20
     IN  IF L = 0 THEN apiCall.prompt = <<>>
         ELSE /\ Len(apiCall.prompt) = 1
              /\ Len(apiCall.prompt[1].lines) = n
              /\ \A i \in 1..n :
                   /\ apiCall.prompt[1].lines[i].id = speechLog[L - n + i].speakerId
                   /\ apiCall.prompt[1].lines[i].text = speechLog[L - n + i].text

\* a log of more than 20 entries whose second entry is the player's: the
\* transcript begins after it
C32_Witness ==
  /\ apiTranscript
  /\ Len(speechLog) = 22
  /\ speechLog[2].speakerId = NoId
  /\ \A i \in 1..20 : apiCall.prompt[1].lines[i].text = "a"

\* C33: an advanceKeyPoint call raises the cursor by 1 or leaves it, an
\* addKeyPoint call leaves it; after every call the cursor is at most the
\* last position of the list, and 0 for an empty list.
C33_CursorMonotone ==
  [][/\ beat'["api"].kind = "advanceKeyPoint" /\ beat["api"].pc = "idle"
          => keyPointIndex' \in {keyPointIndex, keyPointIndex + 1}
     /\ beat'["api"].kind = "addKeyPoint" /\ beat["api"].pc = "idle"
          => keyPointIndex' = keyPointIndex
     /\ keyPointIndex' >= 0
     /\ keyPointIndex' <= Max(0, Len(keyPoints') - 1)]_vars

\* the cursor is on the last of four key points and an advance has left
\* it there, returning that point
C33_Witness ==
  /\ apiCall.kind = "advanceKeyPoint" /\ apiCall.pc = "settled"
  /\ Len(keyPoints) = 4 /\ keyPointIndex = 3
  /\ ret["api"].text = keyPoints[4]

\* the evidence list is as before or has one more item at its end
evidenceAppended ==
  \/ evidences' = evidences
  \/ /\ Len(evidences') = Len(evidences) + 1
     /\ SubSeq(evidences', 1, Len(evidences)) = evidences

\* no two items of the list are the same evidence (an item is named by
\* its id)
uniqueEvidence(list) ==
  \A i, j \in 1..Len(list) : i # j => list[i] # list[j]

\* C34: after createCase and any addEvidence calls no two evidence items
\* have the same id, and the items already there are never removed or
\* reordered.
C34_EvidenceAppendOnlyUnique ==
  [][evidenceAppended /\ uniqueEvidence(evidences')]_vars

\* maxItems of the memory array in the speech schema
MaxMemoryItems == 4

\* C35: applying one draft appends at most 4 entries to the persona's
\* memory, whatever draft the service returned, and no step removes or
\* rewrites an entry that is there.
C35_MemoryBounded ==
  [][\A i \in AllIds :
       /\ Len(memory'[i]) >= Len(memory[i])
       /\ SubSeq(memory'[i], 1, Len(memory[i])) = memory[i]
       /\ Len(memory'[i]) <= Len(memory[i]) + MaxMemoryItems]_vars

\* the api caller's call of a case-setup generator has settled
apiSetup ==
  /\ apiCall.pc = "settled"
  /\ apiCall.kind \in {"generateCasePrompt", "generateEvidence",
                       "generateTrialCharacters"}

\* the value satisfies the generator's output schema and is not empty: an
\* object with a text as prompt, or an array of objects of the schema
conforming(kind, v) ==
  IF kind = "generateCasePrompt"
  THEN v.kind = "object" /\ v.prompt = "x"
  ELSE v.kind = "array" /\ v.n >= 1 /\ v.items = "ok"

\* C36: generateCasePrompt, generateEvidence and generateTrialCharacters
\* never throw, and return their fallback when the service is absent,
\* throws, or gives an empty or non-conforming result.
C36_SetupFallbacks ==
  apiSetup =>
     LET reply  == apiCall.setup[1]
         result == apiCall.setup[2]
         parsed == parseJsonOrCoerce(reply, apiCall.kind = "generateCasePrompt")
     IN  /\ ret["api"].status = "returned"
         /\ (~cmGenai \/ reply.threw \/ ~conforming(apiCall.kind, parsed))
              => result.fallback

\* the candidate with this id in the list the api caller supplied is one
\* with isHuman false
suppliedNpc(id) ==
  \E k \in 1..Len(apiCall.opts.cands) :
     apiCall.opts.cands[k].id = id /\ ~apiCall.opts.cands[k].isHuman

\* C37: chooseSpeaker returns none or one of the supplied candidates with
\* isHuman false, on the continuation, the AI-assisted and the cooldown
\* path, and none when every supplied candidate is human.
C37_ChoiceAmongNpcs ==
  apiChose =>
     /\ ret["api"].status = "returned"
     /\ ret["api"].speakerId = NoId \/ suppliedNpc(ret["api"].speakerId)
     /\ (\A k \in 1..Len(apiCall.opts.cands) : apiCall.opts.cands[k].isHuman)
          => ret["api"].speakerId = NoId

\* the human is the first candidate and the persona after it was chosen
C37_Witness ==
  /\ apiChose /\ Len(apiCall.opts.cands) = 2
  /\ apiCall.opts.cands[1].isHuman
  /\ ret["api"].speakerId = apiCall.opts.cands[2].id

\* a step of the api caller's nextBeat call after which no speaker is
\* chosen: the call awaits the speaker choice or has settled without one
noSpeakerStep ==
  /\ beat'["api"] # beat["api"]
  /\ beat'["api"].kind = "beat"
  /\ beat'["api"].pc \in {"chooseCall", "settled"}
  /\ beat'["api"].speaker = NoId

\* C38: a nextBeat call in which no speaker is chosen returns
\* {speakerId: null, text: ""} and leaves the governor, the transcript, the
\* last-spoken-at map and every persona's memory, speech history, pose and
\* mood as they were.
C38_NoSpeakerNoEffect ==
  [][noSpeakerStep =>
       /\ UNCHANGED <<awaitingPlayer, aiTurnsRemaining, speechLog, lastSpokenAt,
                      memory, speeches, currentPose, mood>>
       /\ beat'["api"].pc = "settled" => ret'["api"] = Returned(NoId, "", FALSE)]_vars

\* a nextBeat call made in an open window, after a beat was delivered, in
\* which the service named no speaker
C38_Witness ==
  /\ apiCall.kind = "beat" /\ apiCall.pc = "settled" /\ apiCall.speaker = NoId
  /\ apiCall.reply.got /\ ~apiCall.atPlayerTurn
  /\ Len(npcCandidates(apiCall.opts.cands)) > 0
  /\ speechLog # <<>> /\ aiTurnsRemaining > 0
  /\ ret["api"] = Returned(NoId, "", FALSE)

\* no nextBeat of the window loop or of the judge opening is in progress
noBeatInProgress == \A p \in {"loop", "judge"} : beat[p].pc = "idle"

\* a window loop has run and has returned
loopReturned == win.pc = "idle" /\ win.budget > 0

\* the judge opening has run to its end
judgeOpened == judgePc = "done" /\ findJudge(characters) # NoId

\* C39: whenever the AI window loop has returned, or the judge opening has
\* ended, and no beat is in progress, hasAiTurnAvailable() is false.
C39_HumanTurnAfterLoop ==
  (alive /\ noBeatInProgress /\ (loopReturned \/ judgeOpened))
     => ~hasAiTurnAvailable(Gov)

\* a step in which the handler is given a message of another sender than
\* the player, or one whose text starts with "[master]"
otherMessage ==
  /\ playerMessages' # playerMessages
  /\ received'.userId # PlayerId \/ received'.master

\* C40: a received message whose sender is not the player, or whose text
\* starts with "[master]", starts no beat and changes neither the governor
\* nor the transcript.
C40_OnlyPlayerOpensWindows ==
  [][otherMessage =>
       UNCHANGED <<awaitingPlayer, aiTurnsRemaining, speechLog, beat,
                   aiWindowRunning, win, lastSpeakerId>>]_vars

\* the judge has opened the trial, the speech arrives on the channel as a
\* message of a persona, and no window was opened
C40_Witness ==
  /\ received = Message("persona", FALSE) /\ playerMessages = 1
  /\ judgePc = "done" /\ speechLog # <<>>
  /\ win = NoWindow /\ ~aiWindowRunning /\ noBeatInProgress

====
